---- MODULE Spec2Model ----
(***************************************************************************)
(* NimbusAI: the turn loop of AntigravityProvider.query, the tool module   *)
(* it dispatches to (tools/index.js) and the Sandbox capability gate       *)
(* (Sandbox class of ollama.ts).                                           *)
(*                                                                         *)
(* A path is a sequence of symbols.  A symbol is the separator "/", the    *)
(* backslash "\\", the dot segments "." and "..", an extension such as     *)
(* ".sh", or an indivisible piece of a name ("home", "Documents").         *)
(* String operations of the code (startsWith, includes, toLowerCase,       *)
(* replace, path.normalize) act on these sequences symbol by symbol.       *)
(***************************************************************************)
EXTENDS Integers, Sequences, FiniteSets, TLC

\* ------------------------------------------------------------------------
\* Bounds
\* ------------------------------------------------------------------------
MaxPerm == 2       \* permission ids the Sandbox hands out
MaxDel == 1        \* deletion ids the tool module hands out
MaxToolPerm == 1   \* permission ids the tool module hands out
MaxTurns == 3      \* this.maxTurns of the provider (50 by default)
MaxAttempts == 2   \* fs deletions started for one deletion id
MaxPrompts == 1    \* user prompts held in one history
MaxConn == 2       \* WebSocket connections of the browser extension
MaxRequests == 2   \* sendCommand calls that pass the connection test
MaxLines == 4      \* lines of one SSE response stream

\* ------------------------------------------------------------------------
\* Strings as symbol sequences
\* ------------------------------------------------------------------------
ToLowerSym(t) ==
  CASE t = "HOME" -> "home"
    [] t = "U" -> "u"
    [] t = "Downloads" -> "downloads"
    [] t = "Documents" -> "documents"
    [] t = "Desktop" -> "desktop"
    [] t = "Pictures" -> "pictures"
    [] t = "Videos" -> "videos"
    [] t = "Music" -> "music"
    [] t = "AppData" -> "appdata"
    [] t = "Application Data" -> "application data"
    [] t = "Program Files" -> "program files"
    [] t = "Program Files (x86)" -> "program files (x86)"
    [] t = "Windows" -> "windows"
    [] t = "System32" -> "system32"
    [] t = ".SH" -> ".sh"
    [] OTHER -> t

toLowerCase(s) == [i \in 1..Len(s) |-> ToLowerSym(s[i])]

\* String.prototype.replace(/\\/g, '/')
ReplaceBackslash(s) == [i \in 1..Len(s) |-> IF s[i] = "\\" THEN "/" ELSE s[i]]

startsWith(s, prefix) ==
  /\ Len(prefix) <= Len(s)
  /\ SubSeq(s, 1, Len(prefix)) = prefix

includes(s, sub) ==
  \E i \in 0..(Len(s) - Len(sub)) : SubSeq(s, i + 1, i + Len(sub)) = sub

\* s.split('/'): the segments between separators, empty ones included
RECURSIVE SplitSep(_, _)
SplitSep(s, cur) ==
  IF s = <<>> THEN <<cur>>
  ELSE IF Head(s) = "/" THEN <<cur>> \o SplitSep(Tail(s), <<>>)
  ELSE SplitSep(Tail(s), Append(cur, Head(s)))

RECURSIVE JoinSep(_)
JoinSep(segs) ==
  IF segs = <<>> THEN <<>>
  ELSE IF Len(segs) = 1 THEN Head(segs)
  ELSE Head(segs) \o <<"/">> \o JoinSep(Tail(segs))

\* normalizeString of node's path module: drops empty and "." segments and
\* resolves ".." against the segment before it
RECURSIVE ResolveDots(_, _, _)
ResolveDots(segs, acc, isAbsolute) ==
  IF segs = <<>> THEN acc
  ELSE LET seg == Head(segs)
           rest == Tail(segs)
       IN IF seg = <<>> \/ seg = <<".">> THEN ResolveDots(rest, acc, isAbsolute)
          ELSE IF seg = <<"..">> THEN
                 IF acc # <<>> /\ acc[Len(acc)] # <<"..">>
                   THEN ResolveDots(rest, SubSeq(acc, 1, Len(acc) - 1), isAbsolute)
                 ELSE IF isAbsolute THEN ResolveDots(rest, acc, isAbsolute)
                 ELSE ResolveDots(rest, Append(acc, seg), isAbsolute)
          ELSE ResolveDots(rest, Append(acc, seg), isAbsolute)

\* path.posix.normalize
PosixNormalize(p) ==
  IF p = <<>> THEN <<".">>
  ELSE LET isAbsolute == p[1] = "/"
           trailingSeparator == p[Len(p)] = "/"
           body == JoinSep(ResolveDots(SplitSep(p, <<>>), <<>>, isAbsolute))
           body1 == IF body = <<>> /\ ~isAbsolute THEN <<".">> ELSE body
           body2 == IF body1 # <<>> /\ trailingSeparator THEN Append(body1, "/") ELSE body1
       IN IF isAbsolute THEN <<"/">> \o body2 ELSE body2

\* path.win32.normalize on paths without a drive or UNC prefix: both
\* separators split, the result is joined with backslashes
Win32Normalize(p) ==
  LET n == PosixNormalize(ReplaceBackslash(p))
  IN [i \in 1..Len(n) |-> IF n[i] = "/" THEN "\\" ELSE n[i]]

Platforms == {"posix", "win32"}

pathNormalize(pl, p) ==
  IF pl = "win32" THEN Win32Normalize(p) ELSE PosixNormalize(p)

\* path.join(a, b)
pathJoin(pl, a, b) == pathNormalize(pl, a \o <<"/">> \o b)

ExtSyms == {".sh", ".SH", ".txt", ".exe", ".bat", ".cmd", ".ps1", ".vbs", ".bash", ".zsh"}

\* path.extname: the extension of the last segment, "" when there is none or
\* when the segment is nothing but the extension
extname(p) ==
  IF Len(p) >= 2 /\ p[Len(p)] \in ExtSyms /\ p[Len(p) - 1] \notin {"/", "\\"}
    THEN p[Len(p)]
    ELSE ""


\* ------------------------------------------------------------------------
\* Sandbox (capability gate)
\* ------------------------------------------------------------------------
DEFAULT_SENSITIVE_PATHS ==
  { <<"Downloads">>, <<"Documents">>, <<"Desktop">>, <<"Pictures">>,
    <<"Videos">>, <<"Music">>, <<"AppData">>, <<"Application Data">>,
    <<".ssh">>, <<".aws">>, <<".config">>, <<".gnupg">>, <<".npmrc">>,
    <<".netrc">>, <<"Program Files">>, <<"Program Files (x86)">>,
    <<"Windows">>, <<"System32">>, <<"/", "etc">>, <<"/", "var">>,
    <<"/", "usr">>, <<"/", "root">>, <<"/", "home">> }

ALWAYS_BLOCKED_PATHS ==
  { <<"System32">>, <<"Windows", "\\", "System32">>,
    <<"/", "etc", "/", "passwd">>, <<"/", "etc", "/", "shadow">>,
    <<"/", "etc", "/", "sudoers">>, <<".ssh", "/", "id_rsa">>,
    <<".ssh", "/", "id_ed25519">>, <<".gnupg", "/", "private-keys">> }

DANGEROUS_EXTENSIONS ==
  {".exe", ".bat", ".cmd", ".ps1", ".vbs", ".sh", ".bash", ".zsh"}

\* process.env.USERPROFILE || process.env.HOME
userHome == <<"/", "home", "/", "u">>

\* The session ids callers pass; "" is the falsy id that approvePermission
\* and denyPermission replace by 'default'
Sessions == {"", "default", "s1"}

Operations == {"read", "write"}

HomeU       == <<"/", "home", "/", "u">>
HomeUBack   == <<"\\", "HOME", "\\", "U">>
HomeUDotV   == <<"/", "home", "/", "u", "/", "..", "/", "v">>
HomeV       == <<"/", "home", "/", "v">>
TmpX        == <<"/", "tmp", "/", "x">>
TmpScript   == <<"/", "tmp", "/", "x", ".SH">>
EtcPasswd   == <<"/", "etc", "/", "passwd">>
Etc         == <<"/", "etc">>

SandboxPaths ==
  {HomeU, HomeUBack, HomeUDotV, HomeV, TmpX, TmpScript, EtcPasswd, Etc}

\* The calls made to validateOperation: <<operation, path>>
Requests ==
  { <<"read", HomeU>>, <<"write", HomeUBack>>, <<"read", HomeUDotV>>,
    <<"write", HomeV>>, <<"read", TmpX>>, <<"read", TmpScript>>,
    <<"write", TmpScript>>, <<"read", EtcPasswd>>, <<"read", Etc>> }

VARIABLES
  platform,               \* process.platform, decides which path.normalize runs
  \* Sandbox (ollama.ts)
  pendingPermissions,     \* Sandbox.pendingPermissions: id -> Permission
  approvedPaths,          \* Sandbox.approvedPaths: sessionId -> set of paths
  deniedPaths,            \* Sandbox.deniedPaths: sessionId -> set of paths
  permCounter,            \* number of permission ids handed out so far
  resolutions,            \* id -> number of approve/deny calls that found the id
  refusedAfter,           \* ids a call got null for after an earlier call found them
  \* tools/index.js
  fsys,                   \* the paths that exist on disk
  pendingDeletions,       \* pendingDeletions: id -> entry
  delCounter,             \* number of deletion ids handed out so far
  toolPendingPermissions, \* pendingPermissions of the tool module
  toolPermCounter,        \* number of permission ids handed out so far
  toolApprovedPaths,      \* approvedPaths of the tool module
  currentSessionId,       \* the module-level session context
  userActedSince,         \* deletion ids requested before the caller's last request
  approvedViaTool,        \* permission ids approved by a ConfirmPermission tool call
  cancelled,              \* deletion ids a CancelDelete call has cancelled
  deniedByUser,           \* <<session, path>> of the permissions the user denied
  misfiled,               \* entries a run created under another session's id
  \* executeConfirmDelete and executeCancelDelete, await by await
  deleteCall,             \* per caller: the ConfirmDelete call waiting for fs
  successes,              \* deletion id -> number of calls that reported success
  attempts,               \* deletion id -> number of fs.rm / fs.unlink calls made
  \* AntigravityProvider.query, one run per chat id
  requests,               \* chat ids of the /api/chat requests not yet served
  queryPc,                \* where each run of query stands
  turn,                   \* let turn
  continueLoop,           \* let continueLoop
  result,                 \* what processStream returned in the current turn
  toolIdx,                \* position of the for loop over result.toolCalls
  toolResults,            \* const toolResults of the current turn
  events,                 \* the events each run has yielded so far
  calls,                  \* number of makeStreamingRequest calls of each run
  sent,                   \* messages in the body of each run's last request
  conversationHistory,    \* AntigravityProvider.conversationHistory
  \* WebSocket bridge to the browser extension (part_001, index.ts)
  browserExtensionSocket, \* the current socket, 0 for null
  readyState,             \* readyState of every socket the server accepted
  pendingRequests,        \* Map id -> the sendCommand call stored under it
  requestIdCounter,       \* let requestIdCounter
  promises,               \* the promise of each sendCommand call, in call order
  timers,                 \* calls whose setTimeout is armed
  notConnected,           \* a sendCommand call threw 'not connected'
  ignored,                \* assigned ids whose response found no pending request
  \* processStream (antigravity-provider.js)
  consumed,               \* the lines of the response read so far
  streamDone,             \* reader.read() has reported done
  streamTextChunks,       \* const textChunks
  streamToolCalls,        \* const toolCalls
  streamContent,          \* const assistantContent
  streamThinking,         \* let thinking
  streamStopReason,       \* let stopReason
  currentToolCall,        \* let currentToolCall, <<>> for null
  currentToolInput,       \* let currentToolInput
  \* SkillsManager.execute (part_003), one execution
  skill,                  \* skill.steps of the skill under execution
  skPc,                   \* where execute stands: idle, await, returned
  execStatus,             \* execution.status
  stepStatus,             \* status of every entry of execution.steps
  currentStepIndex,       \* let currentStepIndex, counted from 1
  cancelReturned          \* cancel(executionId) has returned true

sbVars == <<pendingPermissions, approvedPaths, deniedPaths, permCounter,
           resolutions, refusedAfter>>
toolVars == <<fsys, pendingDeletions, delCounter, toolPendingPermissions,
              toolPermCounter, toolApprovedPaths, currentSessionId,
              userActedSince, approvedViaTool, cancelled, deniedByUser,
                 misfiled>>
queryVars == <<requests, queryPc, turn, continueLoop, result, toolIdx,
               toolResults, events, calls, sent,
                 conversationHistory>>
delVars == <<deleteCall, successes, attempts>>
brVars == <<browserExtensionSocket, readyState, pendingRequests,
            requestIdCounter, promises, timers, notConnected,
            ignored>>
strVars == <<consumed, streamDone, streamTextChunks, streamToolCalls,
             streamContent, streamThinking, streamStopReason, currentToolCall,
             currentToolInput>>
skVars == <<skill, skPc, execStatus, stepStatus, currentStepIndex,
            cancelReturned>>
vars == <<platform, sbVars, toolVars, queryVars, delVars, brVars, strVars,
          skVars>>

\* Sandbox.normalizePath on a given platform
normalizePathOn(pl, targetPath) ==
  ReplaceBackslash(toLowerCase(pathNormalize(pl, targetPath)))

\* The normalised form of every path the model passes in, tabulated once as
\* <<platform, path, normalised path>>
NormalizedPaths ==
  {<<pl, p, normalizePathOn(pl, p)>> : pl \in Platforms, p \in SandboxPaths}

normalizePath(targetPath) ==
  (CHOOSE t \in NormalizedPaths : t[1] = platform /\ t[2] = targetPath)[3]

isBlockedOn(pl, targetPath) ==
  \E blocked \in ALWAYS_BLOCKED_PATHS :
    includes(normalizePathOn(pl, targetPath), normalizePathOn(pl, blocked))

\* <<platform, path, whether the path is always blocked>>
BlockedPaths ==
  {<<pl, p, isBlockedOn(pl, p)>> : pl \in Platforms, p \in SandboxPaths}

neverBlocked(targetPath) == FALSE
\* Sandbox.isBlocked
isBlocked(targetPath) == <<platform, targetPath, TRUE>> \in BlockedPaths

isSensitiveOn(pl, targetPath) ==
  \E sensitive \in DEFAULT_SENSITIVE_PATHS :
    \/ includes(normalizePathOn(pl, targetPath), normalizePathOn(pl, sensitive))
    \/ includes(normalizePathOn(pl, targetPath),
                normalizePathOn(pl, pathJoin(pl, userHome, sensitive)))

\* <<platform, path, whether the path is sensitive>>
SensitivePaths ==
  {<<pl, p, isSensitiveOn(pl, p)>> : pl \in Platforms, p \in SandboxPaths}

isSensitive(targetPath) == <<platform, targetPath, TRUE>> \in SensitivePaths

isApproved(sessionId, targetPath) ==
  \E approvedPath \in approvedPaths[sessionId] :
    startsWith(normalizePath(targetPath), approvedPath)

isDenied(sessionId, targetPath) ==
  \E deniedPath \in deniedPaths[sessionId] :
    startsWith(normalizePath(targetPath), deniedPath)

isDangerousExtension(filePath) ==
  ToLowerSym(extname(filePath)) \in DANGEROUS_EXTENSIONS

\* validateOperation with the approved set consulted before the denied set
validateOutcomeApprovedFirst(sessionId, operation, targetPath) ==
  IF isBlocked(targetPath) THEN "blocked"
  ELSE IF isApproved(sessionId, targetPath) THEN "allowed"
  ELSE IF isDenied(sessionId, targetPath) THEN "denied"
  ELSE IF isSensitive(targetPath) THEN "requiresPermission"
  ELSE IF operation \in {"write", "execute"} /\ isDangerousExtension(targetPath)
    THEN "requiresPermission"
  ELSE "allowed"

\* The rule of validateOperation that decides the call, in the order the
\* code tests them
validateOutcome(sessionId, operation, targetPath) ==
  IF isBlocked(targetPath) THEN "blocked"
  ELSE IF isDenied(sessionId, targetPath) THEN "denied"
  ELSE IF isApproved(sessionId, targetPath) THEN "allowed"
  ELSE IF isSensitive(targetPath) THEN "requiresPermission"
  ELSE IF operation \in {"write", "execute"} /\ isDangerousExtension(targetPath)
    THEN "requiresPermission"
  ELSE "allowed"

\* requestPermission: a fresh id, the entry stored under it
requestPermission(sessionId, operation, targetPath) ==
  /\ permCounter < MaxPerm
  /\ permCounter' = permCounter + 1
  /\ pendingPermissions' =
       [id \in DOMAIN pendingPermissions \cup {permCounter + 1} |->
          IF id = permCounter + 1
            THEN [path |-> targetPath, operation |-> operation, sessionId |-> sessionId]
            ELSE pendingPermissions[id]]

validateOperation(sessionId, operation, targetPath) ==
  LET outcome == validateOutcome(sessionId, operation, targetPath) IN
  /\ IF outcome = "requiresPermission"
       THEN requestPermission(sessionId, operation, targetPath)
       ELSE UNCHANGED <<pendingPermissions, permCounter>>
  /\ UNCHANGED <<platform, skVars, strVars, brVars, delVars, queryVars, approvedPaths, deniedPaths, resolutions,
                 refusedAfter, toolVars>>

\* permission.sessionId || 'default'
sessionOrDefault(sessionId) == IF sessionId = "" THEN "default" ELSE sessionId

\* this.pendingPermissions with the entry left in place
keepPermission(permissionId) == pendingPermissions

\* this.pendingPermissions.delete(permissionId)
deletePermission(permissionId) ==
  [id \in DOMAIN pendingPermissions \ {permissionId} |-> pendingPermissions[id]]

\* if (!permission) return null
permissionNotFound(permissionId) ==
  /\ refusedAfter' =
       IF resolutions[permissionId] > 0
         THEN refusedAfter \cup {permissionId}
         ELSE refusedAfter
  /\ UNCHANGED <<platform, skVars, strVars, brVars, delVars, queryVars, pendingPermissions, approvedPaths,
                 deniedPaths, permCounter, resolutions, toolVars>>

approvePermission(permissionId) ==
  IF permissionId \notin DOMAIN pendingPermissions
    THEN permissionNotFound(permissionId)
    ELSE /\ pendingPermissions' = deletePermission(permissionId)
         /\ approvedPaths' =
              [approvedPaths EXCEPT
                 ![sessionOrDefault(pendingPermissions[permissionId].sessionId)] =
                    @ \cup {normalizePath(pendingPermissions[permissionId].path)}]
         /\ resolutions' = [resolutions EXCEPT ![permissionId] = @ + 1]
         /\ UNCHANGED <<platform, skVars, strVars, brVars, delVars, queryVars, deniedPaths, permCounter,
                        refusedAfter, toolVars>>

denyPermission(permissionId) ==
  IF permissionId \notin DOMAIN pendingPermissions
    THEN permissionNotFound(permissionId)
    ELSE /\ pendingPermissions' = deletePermission(permissionId)
         /\ deniedPaths' =
              [deniedPaths EXCEPT
                 ![sessionOrDefault(pendingPermissions[permissionId].sessionId)] =
                    @ \cup {normalizePath(pendingPermissions[permissionId].path)}]
         /\ resolutions' = [resolutions EXCEPT ![permissionId] = @ + 1]
         /\ UNCHANGED <<platform, skVars, strVars, brVars, delVars, queryVars, approvedPaths, permCounter,
                        refusedAfter, toolVars>>

clearSession(sessionId) ==
  /\ approvedPaths' = [approvedPaths EXCEPT ![sessionId] = {}]
  /\ deniedPaths' = [deniedPaths EXCEPT ![sessionId] = {}]
  /\ pendingPermissions' =
       [id \in {i \in DOMAIN pendingPermissions : pendingPermissions[i].sessionId # sessionId}
          |-> pendingPermissions[id]]
  /\ UNCHANGED <<platform, skVars, strVars, brVars, delVars, queryVars, permCounter, resolutions, refusedAfter,
                 toolVars>>

SandboxInit ==
  /\ pendingPermissions = [id \in {} |-> 0]
  /\ approvedPaths = [s \in Sessions |-> {}]
  /\ deniedPaths = [s \in Sessions |-> {}]
  /\ permCounter = 0
  /\ resolutions = [id \in 1..MaxPerm |-> 0]
  /\ refusedAfter = {}

SandboxNext ==
  \/ \E s \in Sessions, r \in Requests : validateOperation(s, r[1], r[2])
  \/ \E id \in 1..MaxPerm : approvePermission(id)
  \/ \E id \in 1..MaxPerm : denyPermission(id)
  \/ \E s \in Sessions : clearSession(s)



\* ------------------------------------------------------------------------
\* Tool module (tools/index.js)
\* ------------------------------------------------------------------------
SENSITIVE_PATHS ==
  { <<"Downloads">>, <<"Documents">>, <<"Desktop">>, <<"Pictures">>,
    <<"Videos">>, <<"Music">>, <<"AppData">>, <<"Application Data">>,
    <<".ssh">>, <<".aws">>, <<".config">>, <<"Program Files">>,
    <<"Windows">>, <<"System32">> }

\* The chat ids the server passes to query, used as session ids by the tools
Chats == {"c1", "c2"}

DocsY == <<"/", "home", "/", "u", "/", "Documents", "/", "y">>
TmpD  == <<"/", "tmp", "/", "d">>

\* The paths tool calls name: a file, a file in a sensitive directory and a
\* directory
ToolPaths == {TmpX, DocsY, TmpD}

\* stat.isDirectory()
IsDirectory(p) == p = TmpD

\* Shell command lines, symbol by symbol
RmCommand(p) == <<"rm", " ">> \o p
RmRfCommand(p) == <<"RM", " ", "-rf", " ">> \o p
EchoCommand == <<"echo", " ", "hi">>

ToLowerCmdSym(t) == IF t = "RM" THEN "rm" ELSE ToLowerSym(t)

\* Tool calls as the provider emits them: a name and an input object.  For a
\* browser tool the command field holds what the bridge does with the call:
\* no extension connected, a result, an error reply, or no reply in time
ToolInput(name, path, id, recursive, command) ==
  [name |-> name, path |-> path, id |-> id, recursive |-> recursive,
   command |-> command]

ToolInputs ==
  { ToolInput("Read", DocsY, 0, FALSE, <<>>),
    ToolInput("Write", TmpX, 0, FALSE, <<>>),
    ToolInput("Delete", TmpX, 0, FALSE, <<>>),
    ToolInput("Delete", TmpD, 0, FALSE, <<>>),
    ToolInput("Delete", DocsY, 0, FALSE, <<>>),
    ToolInput("Glob", DocsY, 0, FALSE, <<>>),
    ToolInput("Grep", DocsY, 0, FALSE, <<>>),
    ToolInput("CodeAnalysis", DocsY, 0, FALSE, <<>>),
    ToolInput("BrowserNavigate", <<>>, 0, FALSE, <<"not_connected">>),
    ToolInput("BrowserNavigate", <<>>, 0, FALSE, <<"result">>),
    ToolInput("BrowserNavigate", <<>>, 0, FALSE, <<"error">>),
    ToolInput("BrowserNavigate", <<>>, 0, FALSE, <<"timeout">>),
    ToolInput("Bash", <<>>, 0, FALSE, RmCommand(TmpX)),
    ToolInput("Bash", <<>>, 0, FALSE, RmRfCommand(TmpD)),
    ToolInput("Bash", <<>>, 0, FALSE, EchoCommand),
    ToolInput("Teleport", <<>>, 0, FALSE, <<>>) }
  \cup {ToolInput("ConfirmDelete", <<>>, i, FALSE, <<>>) : i \in 1..MaxDel}
  \cup {ToolInput("CancelDelete", <<>>, i, FALSE, <<>>) : i \in 1..MaxDel}
  \cup {ToolInput("ConfirmPermission", <<>>, i, FALSE, <<>>) : i \in 1..MaxToolPerm}
  \cup {ToolInput("DenyPermission", <<>>, i, FALSE, <<>>) : i \in 1..MaxToolPerm}

\* <<platform, path, path.normalize(path)>>
ToolNormalizedPaths ==
  {<<pl, p, pathNormalize(pl, p)>> : pl \in Platforms, p \in ToolPaths}

toolNormalize(targetPath) ==
  (CHOOSE t \in ToolNormalizedPaths : t[1] = platform /\ t[2] = targetPath)[3]

isSensitivePathOn(pl, targetPath) ==
  LET normalizedPath == toLowerCase(pathNormalize(pl, targetPath)) IN
  \E sensitive \in SENSITIVE_PATHS :
    \/ includes(normalizedPath, toLowerCase(sensitive))
    \/ includes(normalizedPath, toLowerCase(pathJoin(pl, userHome, sensitive)))

\* <<platform, path, whether the path is sensitive>>
ToolSensitivePaths ==
  {<<pl, p, isSensitivePathOn(pl, p)>> : pl \in Platforms, p \in ToolPaths}

isSensitivePath(targetPath) == <<platform, targetPath, TRUE>> \in ToolSensitivePaths

isPathApproved(sessionId, targetPath) ==
  \E approvedPath \in toolApprovedPaths[sessionId] :
    startsWith(toLowerCase(toolNormalize(targetPath)), toLowerCase(approvedPath))

\* What a handler leaves behind: its result and the stores it may change
ToolOutcome(kind, id) ==
  [result |-> [kind |-> kind, id |-> id],
   fsys |-> fsys,
   pendingDeletions |-> pendingDeletions,
   delCounter |-> delCounter,
   toolPendingPermissions |-> toolPendingPermissions,
   toolPermCounter |-> toolPermCounter,
   toolApprovedPaths |-> toolApprovedPaths]

\* the call answers without keeping the request
requestPathPermissionUnstored(targetPath, operation) ==
  [ToolOutcome("requires_permission", toolPermCounter + 1) EXCEPT
     !.toolPermCounter = toolPermCounter + 1]

requestPathPermission(targetPath, operation) ==
  LET permissionId == toolPermCounter + 1 IN
  [ToolOutcome("requires_permission", permissionId) EXCEPT
     !.toolPermCounter = permissionId,
     !.toolPendingPermissions =
        [id \in DOMAIN toolPendingPermissions \cup {permissionId} |->
           IF id = permissionId
             THEN [path |-> targetPath, operation |-> operation,
                   sessionId |-> currentSessionId]
             ELSE toolPendingPermissions[id]]]

confirmPermission(permissionId) ==
  IF permissionId \notin DOMAIN toolPendingPermissions
    THEN ToolOutcome("error", permissionId)
    ELSE LET perm == toolPendingPermissions[permissionId] IN
         [ToolOutcome("approved", permissionId) EXCEPT
            !.toolApprovedPaths =
               [toolApprovedPaths EXCEPT
                  ![perm.sessionId] = @ \cup {toolNormalize(perm.path)}],
            !.toolPendingPermissions =
               [id \in DOMAIN toolPendingPermissions \ {permissionId} |->
                  toolPendingPermissions[id]]]

toolDenyPermission(permissionId) ==
  IF permissionId \notin DOMAIN toolPendingPermissions
    THEN ToolOutcome("error", permissionId)
    ELSE [ToolOutcome("denied", permissionId) EXCEPT
            !.toolPendingPermissions =
               [id \in DOMAIN toolPendingPermissions \ {permissionId} |->
                  toolPendingPermissions[id]]]

\* fs.readFile throws when the file is missing
executeRead(input) ==
  IF isSensitivePath(input.path) /\ ~isPathApproved(currentSessionId, input.path)
    THEN requestPathPermission(input.path, "read")
  ELSE IF input.path \notin fsys \/ IsDirectory(input.path)
    THEN ToolOutcome("throw", 0)
  ELSE ToolOutcome("content", 0)

executeWrite(input) ==
  IF isSensitivePath(input.path) /\ ~isPathApproved(currentSessionId, input.path)
    THEN requestPathPermission(input.path, "write")
  ELSE IF IsDirectory(input.path)
    THEN ToolOutcome("throw", 0)
  ELSE [ToolOutcome("success", 0) EXCEPT !.fsys = @ \cup {input.path}]

\* glob resolves with the matches, none when the directory is missing
executeGlob(input) == ToolOutcome("files", 0)

\* fs.stat throws when the search path is missing; the files are read
executeGrep(input) ==
  IF input.path \notin fsys
    THEN ToolOutcome("throw", 0)
    ELSE ToolOutcome("matches", 0)

\* fs.stat throws when the path is missing; the file is read
executeCodeAnalysis(input) ==
  IF input.path \notin fsys
    THEN ToolOutcome("throw", 0)
    ELSE ToolOutcome("analysis", 0)

\* checkBrowserExtension, then browserExtension.sendCommand, whose promise
\* rejects on an error reply and on the timeout
executeBrowserNavigate(input) ==
  IF input.command = <<"not_connected">> THEN ToolOutcome("error", 0)
  ELSE IF input.command = <<"result">> THEN ToolOutcome("result", 0)
  ELSE ToolOutcome("throw", 0)

executeDeleteNoStat(input) ==
  LET deletionId == delCounter + 1 IN
  [ToolOutcome("requires_approval", deletionId) EXCEPT
     !.delCounter = deletionId,
     !.pendingDeletions =
        [id \in DOMAIN pendingDeletions \cup {deletionId} |->
           IF id = deletionId
             THEN [path |-> input.path, recursive |-> input.recursive,
                   isDirectory |-> IsDirectory(input.path),
                   session |-> currentSessionId]
             ELSE pendingDeletions[id]]]

\* executeDelete; fs.stat throws on a path that does not exist
executeDelete(input) ==
  IF input.path \notin fsys
    THEN ToolOutcome("error", 0)
    ELSE LET deletionId == delCounter + 1 IN
         [ToolOutcome("requires_approval", deletionId) EXCEPT
            !.delCounter = deletionId,
            !.pendingDeletions =
               [id \in DOMAIN pendingDeletions \cup {deletionId} |->
                  IF id = deletionId
                    THEN [path |-> input.path, recursive |-> input.recursive,
                          isDirectory |-> IsDirectory(input.path),
                          session |-> currentSessionId]
                    ELSE pendingDeletions[id]]]

\* the entry is dropped before the filesystem call
executeConfirmDeleteDropFirst(input) ==
  IF input.id \notin DOMAIN pendingDeletions
    THEN ToolOutcome("error", input.id)
    ELSE LET pending == pendingDeletions[input.id] IN
         [ToolOutcome(IF \/ pending.path \notin fsys
                         \/ (pending.isDirectory /\ ~pending.recursive)
                        THEN "error" ELSE "success", input.id) EXCEPT
            !.fsys = IF pending.isDirectory /\ ~pending.recursive
                       THEN @ ELSE @ \ {pending.path},
            !.pendingDeletions =
               [id \in DOMAIN pendingDeletions \ {input.id} |->
                  pendingDeletions[id]]]

\* fs.rm refuses a directory unless recursive is set; fs.unlink and fs.rm fail
\* on a path that is gone
executeConfirmDelete(input) ==
  IF input.id \notin DOMAIN pendingDeletions
    THEN ToolOutcome("error", input.id)
    ELSE LET pending == pendingDeletions[input.id] IN
         IF \/ pending.path \notin fsys
            \/ (pending.isDirectory /\ ~pending.recursive)
           THEN ToolOutcome("error", input.id)
           ELSE [ToolOutcome("success", input.id) EXCEPT
                   !.fsys = @ \ {pending.path},
                   !.pendingDeletions =
                      [id \in DOMAIN pendingDeletions \ {input.id} |->
                         pendingDeletions[id]]]

executeCancelDeleteKeeping(input) ==
  IF input.id \notin DOMAIN pendingDeletions
    THEN ToolOutcome("error", input.id)
    ELSE ToolOutcome("cancelled", input.id)

\* executeCancelDelete
executeCancelDelete(input) ==
  IF input.id \notin DOMAIN pendingDeletions
    THEN ToolOutcome("error", input.id)
    ELSE [ToolOutcome("cancelled", input.id) EXCEPT
            !.pendingDeletions =
               [id \in DOMAIN pendingDeletions \ {input.id} |-> pendingDeletions[id]]]

DangerousCommands ==
  { <<"rm", " ", "-rf", " ", "/">>, <<"mkfs">>, <<":(){">>, <<"format", " ", "c:">> }

\* What the shell does with a command line: rm removes a file that exists
execAsync(command) ==
  IF Len(command) > 2 /\ SubSeq(command, 1, 2) = <<"rm", " ">>
    THEN LET target == SubSeq(command, 3, Len(command)) IN
         IF target \in fsys /\ ~IsDirectory(target)
           THEN [ToolOutcome("success", 0) EXCEPT !.fsys = @ \ {target}]
           ELSE ToolOutcome("failed", 0)
    ELSE ToolOutcome("success", 0)

executeBash(input) ==
  IF \E d \in DangerousCommands :
       includes([i \in 1..Len(input.command) |-> ToLowerCmdSym(input.command[i])], d)
    THEN ToolOutcome("error", 0)
    ELSE execAsync(input.command)

\* The handler the switch of executeTool selects
toolHandler(input) ==
  CASE input.name = "Read" -> executeRead(input)
    [] input.name = "Write" -> executeWrite(input)
    [] input.name = "Glob" -> executeGlob(input)
    [] input.name = "Grep" -> executeGrep(input)
    [] input.name = "CodeAnalysis" -> executeCodeAnalysis(input)
    [] input.name = "BrowserNavigate" -> executeBrowserNavigate(input)
    [] input.name = "Bash" -> executeBash(input)
    [] input.name = "Delete" -> executeDelete(input)
    [] input.name = "ConfirmDelete" -> executeConfirmDelete(input)
    [] input.name = "CancelDelete" -> executeCancelDelete(input)
    [] input.name = "ConfirmPermission" -> confirmPermission(input.id)
    [] input.name = "DenyPermission" -> toolDenyPermission(input.id)
    [] OTHER -> ToolOutcome("error", 0)

\* executeTool without its try/catch
rethrow(out) == out

\* The try/catch of executeTool: whatever a handler throws comes back as
\* {error: message}
catchError(out) ==
  IF out.result.kind = "throw"
    THEN [out EXCEPT !.result = [kind |-> "error", id |-> 0]]
    ELSE out

executeTool(input) == catchError(toolHandler(input))

\* The stores once a call with the given outcome has returned; approvedViaTool
\* records the permission a tool call approved
ApplyOutcome(out) ==
  /\ out.delCounter <= MaxDel
  /\ out.toolPermCounter <= MaxToolPerm
  /\ fsys' = out.fsys
  /\ pendingDeletions' = out.pendingDeletions
  /\ delCounter' = out.delCounter
  /\ toolPendingPermissions' = out.toolPendingPermissions
  /\ toolPermCounter' = out.toolPermCounter
  /\ toolApprovedPaths' = out.toolApprovedPaths
  /\ approvedViaTool' =
       IF out.result.kind = "approved"
         THEN approvedViaTool \cup {out.result.id}
         ELSE approvedViaTool
  /\ cancelled' =
       IF out.result.kind = "cancelled"
         THEN cancelled \cup {out.result.id}
         ELSE cancelled
  /\ deniedByUser' =
       IF out.result.kind = "denied"
         THEN deniedByUser \cup {<<toolPendingPermissions[out.result.id].sessionId,
                                   toolPendingPermissions[out.result.id].path>>}
         ELSE deniedByUser

getPendingDeletionsUnfiltered(sessionId) == DOMAIN pendingDeletions
\* getPendingDeletions(sessionId): the ids listed; '' stands for no argument
getPendingDeletions(sessionId) ==
  {id \in DOMAIN pendingDeletions :
     sessionId = "" \/ pendingDeletions[id].session = sessionId}

\* await executeTool(name, input)
DispatchTool(input) == ApplyOutcome(executeTool(input))

\* A tool call dispatched on its own, whatever run it belongs to
ExecuteToolCall(input) ==
  /\ DispatchTool(input)
  /\ UNCHANGED <<platform, skVars, strVars, brVars, delVars, queryVars, sbVars, currentSessionId, userActedSince,
                 misfiled>>

\* setSessionId, called when a query starts
setSessionId(sessionId) ==
  /\ currentSessionId' = sessionId
  /\ UNCHANGED <<platform, skVars, strVars, brVars, delVars, queryVars, sbVars, fsys, pendingDeletions, delCounter,
                 toolPendingPermissions, toolPermCounter, toolApprovedPaths,
                 userActedSince, approvedViaTool, cancelled, deniedByUser,
                 misfiled>>

\* POST /api/confirm-permission
ApiConfirmPermission(permissionId) ==
  LET out == confirmPermission(permissionId) IN
  /\ toolPendingPermissions' = out.toolPendingPermissions
  /\ toolApprovedPaths' = out.toolApprovedPaths
  /\ userActedSince' = userActedSince \cup DOMAIN pendingDeletions
  /\ UNCHANGED <<platform, skVars, strVars, brVars, delVars, queryVars, sbVars, fsys, pendingDeletions, delCounter,
                 toolPermCounter, currentSessionId, approvedViaTool, cancelled, deniedByUser,
                 misfiled>>

\* POST /api/deny-permission
ApiDenyPermission(permissionId) ==
  LET out == toolDenyPermission(permissionId) IN
  /\ toolPendingPermissions' = out.toolPendingPermissions
  /\ userActedSince' = userActedSince \cup DOMAIN pendingDeletions
  /\ UNCHANGED <<platform, skVars, strVars, brVars, delVars, queryVars, sbVars, fsys, pendingDeletions, delCounter,
                 toolPermCounter, toolApprovedPaths, currentSessionId,
                 approvedViaTool, cancelled,
                 misfiled>>
  /\ deniedByUser' =
       IF out.result.kind = "denied"
         THEN deniedByUser \cup {<<toolPendingPermissions[permissionId].sessionId,
                                   toolPendingPermissions[permissionId].path>>}
         ELSE deniedByUser

ToolsInit ==
  /\ fsys = ToolPaths
  /\ pendingDeletions = [id \in {} |-> 0]
  /\ delCounter = 0
  /\ toolPendingPermissions = [id \in {} |-> 0]
  /\ toolPermCounter = 0
  /\ toolApprovedPaths = [s \in Chats \cup {"default"} |-> {}]
  /\ currentSessionId = "default"
  /\ userActedSince = {}
  /\ approvedViaTool = {}
  /\ cancelled = {}
  /\ deniedByUser = {}
  /\ misfiled = {}

ToolsNext ==
  \/ \E input \in ToolInputs : ExecuteToolCall(input)
  \/ \E c \in Chats : setSessionId(c)
  \/ \E id \in 1..MaxToolPerm : ApiConfirmPermission(id)
  \/ \E id \in 1..MaxToolPerm : ApiDenyPermission(id)

\* ------------------------------------------------------------------------
\* AntigravityProvider.query (turn loop)
\* ------------------------------------------------------------------------

\* A tool call as processStream assembles it; the id is the provider's
ToolCall(id, input) == [id |-> id, name |-> input.name, input |-> input]

\* What processStream returns: the number of text chunks, whether there was
\* thinking, the tool calls and the stop reason
StreamResult(textChunks, thinking, toolCalls, stopReason) ==
  [textChunks |-> textChunks, thinking |-> thinking, toolCalls |-> toolCalls,
   stopReason |-> stopReason]

NoResult == StreamResult(0, FALSE, <<>>, "null")

\* The streams the provider answers with
StreamResults ==
  { StreamResult(1, FALSE, <<>>, "end_turn"),
    NoResult,
    StreamResult(1, TRUE,
                 <<ToolCall("a", ToolInput("Write", TmpX, 0, FALSE, <<>>))>>,
                 "tool_use"),
    StreamResult(0, FALSE,
                 <<ToolCall("a", ToolInput("Teleport", <<>>, 0, FALSE, <<>>)),
                   ToolCall("b", ToolInput("ConfirmDelete", <<>>, 1, FALSE, <<>>))>>,
                 "tool_use"),
    StreamResult(0, FALSE,
                 <<ToolCall("a", ToolInput("Delete", TmpX, 0, FALSE, <<>>)),
                   ToolCall("a", ToolInput("ConfirmDelete", <<>>, 1, FALSE, <<>>))>>,
                 "end_turn"),
    StreamResult(0, TRUE,
                 <<ToolCall("b", ToolInput("Read", DocsY, 0, FALSE, <<>>))>>,
                 "tool_use") }

\* How a provider call ends: fetch rejects, the response is not ok, reading
\* the stream throws, or processStream returns
ResponseKinds == {"reject", "not_ok", "stream_error", "ok"}

\* The number of calls of a list that hand out a fresh id of the given store
RECURSIVE FreshIds(_, _)
FreshIds(toolCalls, names) ==
  IF toolCalls = <<>> THEN 0
  ELSE (IF Head(toolCalls).name \in names THEN 1 ELSE 0)
       + FreshIds(Tail(toolCalls), names)

\* An event the generator yields; turn is the turn that yielded it
Event(type, id, name, content, t) ==
  [type |-> type, id |-> id, name |-> name, content |-> content, turn |-> t]

RECURSIVE textChunkEvents(_, _)
textChunkEvents(n, t) ==
  IF n = 0 THEN <<>>
  ELSE <<Event("text", "", "", "delta", t)>> \o textChunkEvents(n - 1, t)

thinkingEvents(thinking, t) ==
  IF thinking THEN <<Event("thinking", "", "", "thinking", t)>> ELSE <<>>

toolUseEvent(toolCall, t) ==
  Event("tool_use", toolCall.id, toolCall.name, "", t)

\* The tool_result event carrying the name of the call in tool_use_id
toolResultEventByName(toolCall, toolResult, t) ==
  Event("tool_result", toolCall.name, toolCall.name, toolResult.kind, t)

toolResultEvent(toolCall, toolResult, t) ==
  Event("tool_result", toolCall.id, toolCall.name, toolResult.kind, t)

errorEvent(kind, t) ==
  Event("error", "", "",
        IF kind = "not_ok" THEN "API error" ELSE "error.message", t)

\* params.maxTurns as the chat endpoints pass it: below the limit the
\* provider was constructed with (20 against the default of 50)
paramsMaxTurns == MaxTurns - 1

loopAfterText == TRUE
\* continueLoop = false in the branch without tool calls
stopAfterText == FALSE

retryAfterError == "loop"
\* break after the error event
breakAfterError == "break"

\* The while condition with the turn bound off by one
loopContinuesInclusive(cl, t) == cl /\ t <= MaxTurns

\* while (continueLoop && turn < this.maxTurns)
loopContinues(cl, t) == cl /\ t < MaxTurns

\* The events after the loop, without done once the turn bound is reached
finalEventsNoticeOnly(t) ==
  IF t >= MaxTurns
    THEN <<Event("text", "", "", "[Reached maximum turns]", 0)>>
    ELSE <<Event("done", "", "", "", 0)>>

\* The events after the loop: the notice when the turn bound is reached, done
finalEvents(t) ==
  (IF t >= MaxTurns
     THEN <<Event("text", "", "", "[Reached maximum turns]", 0)>>
     ELSE <<>>)
  \o <<Event("done", "", "", "", 0)>>

addToHistory(history, message) ==
  LET h == Append(history, message) IN
  IF Len(h) > 100 THEN SubSeq(h, Len(h) - 80 + 1, Len(h)) ELSE h

\* result.assistantContent: a text item per chunk, a tool_use item per call
RECURSIVE textItems(_)
textItems(n) == IF n = 0 THEN <<>> ELSE <<"text">> \o textItems(n - 1)

assistantContent(r) ==
  textItems(r.textChunks) \o [i \in 1..Len(r.toolCalls) |-> r.toolCalls[i].id]

Message(role, content) == [role |-> role, content |-> content]

\* query() up to its first yield: setSessionId, the user message, session_init
StartQuery(c) ==
  /\ c \in requests
  /\ requests' = requests \ {c}
  /\ queryPc[c] = "idle"
  /\ currentSessionId' = c
  /\ conversationHistory' =
       [conversationHistory EXCEPT
          ![c] = addToHistory(@, Message("user", <<"prompt">>))]
  /\ events' = [events EXCEPT ![c] = Append(@, Event("session_init", "", "", "", 0))]
  /\ queryPc' = [queryPc EXCEPT ![c] = "loop"]
  /\ UNCHANGED <<platform, skVars, strVars, brVars, delVars, sbVars, fsys, pendingDeletions, delCounter,
                 toolPendingPermissions, toolPermCounter, toolApprovedPaths,
                 userActedSince, approvedViaTool, cancelled, deniedByUser, misfiled, turn, continueLoop,
                 result,
                 toolIdx, toolResults, calls, sent>>

\* One pass of the while body up to the tool loop: the provider call, the
\* error exits, text and thinking, and the branch without tool calls
Request(c, kind, r) ==
  /\ queryPc[c] = "loop"
  /\ loopContinues(continueLoop[c], turn[c])
  /\ toolPermCounter + FreshIds(r.toolCalls, {"Read", "Write"}) <= MaxToolPerm
  /\ delCounter + FreshIds(r.toolCalls, {"Delete"}) <= MaxDel
  /\ turn' = [turn EXCEPT ![c] = @ + 1]
  /\ calls' = [calls EXCEPT ![c] = @ + 1]
  /\ sent' = [sent EXCEPT ![c] = conversationHistory[c]]
  /\ IF kind # "ok"
       THEN /\ r = NoResult
            /\ events' = [events EXCEPT ![c] = Append(@, errorEvent(kind, turn'[c]))]
            /\ queryPc' = [queryPc EXCEPT ![c] = breakAfterError]
            /\ UNCHANGED <<result, toolIdx, toolResults, continueLoop,
                           conversationHistory>>
       ELSE /\ events' =
                 [events EXCEPT
                    ![c] = @ \o textChunkEvents(r.textChunks, turn'[c])
                             \o thinkingEvents(r.thinking, turn'[c])]
            /\ result' = [result EXCEPT ![c] = r]
            /\ IF Len(r.toolCalls) > 0
                 THEN /\ toolIdx' = [toolIdx EXCEPT ![c] = 1]
                      /\ toolResults' = [toolResults EXCEPT ![c] = <<>>]
                      /\ queryPc' = [queryPc EXCEPT ![c] = "tool_use"]
                      /\ UNCHANGED <<continueLoop, conversationHistory>>
                 ELSE /\ conversationHistory' =
                           IF Len(assistantContent(r)) > 0
                             THEN [conversationHistory EXCEPT
                                     ![c] = addToHistory(@, Message("assistant",
                                                                    assistantContent(r)))]
                             ELSE conversationHistory
                      /\ continueLoop' = [continueLoop EXCEPT ![c] = stopAfterText]
                      /\ UNCHANGED <<toolIdx, toolResults, queryPc>>
  /\ UNCHANGED <<platform, skVars, strVars, brVars, delVars, sbVars, toolVars, requests>>

\* yield {type: 'tool_use', ...} for the next call of the list
YieldToolUse(c) ==
  /\ queryPc[c] = "tool_use"
  /\ events' =
       [events EXCEPT
          ![c] = Append(@, toolUseEvent(result[c].toolCalls[toolIdx[c]], turn[c]))]
  /\ queryPc' = [queryPc EXCEPT ![c] = "exec"]
  /\ UNCHANGED <<platform, skVars, strVars, brVars, delVars, sbVars, toolVars, requests, turn, continueLoop,
                 result, toolIdx, toolResults, calls, sent,
                 conversationHistory>>

\* The block pushed to toolResults, with the name of the call as its id
toolResultBlockByName(toolCall, toolResult) ==
  [tool_use_id |-> toolCall.name, content |-> toolResult.kind]

\* toolResults.push({type: 'tool_result', tool_use_id: toolCall.id, ...})
toolResultBlock(toolCall, toolResult) ==
  [tool_use_id |-> toolCall.id, content |-> toolResult.kind]

abortsOnError(kind) == kind \in {"throw", "error"}
\* What takes the turn to its catch: an exception out of executeTool
abortsTurn(kind) == kind = "throw"

sameCall(i) == i
\* for (const toolCall of result.toolCalls): the next call of the list
nextCall(i) == i + 1

\* The entries a call of run c created that record another session than c
NewEntriesOfOthers(c, out) ==
  {<<"permission", id>> :
     id \in {i \in DOMAIN out.toolPendingPermissions \ DOMAIN toolPendingPermissions :
               out.toolPendingPermissions[i].sessionId # c}}
  \cup
  {<<"deletion", id>> :
     id \in {i \in DOMAIN out.pendingDeletions \ DOMAIN pendingDeletions :
               out.pendingDeletions[i].session # c}}

\* The rest of a pass of the for loop once executeTool has returned: the
\* tool_result event, the push, and after the last call of the list the two
\* history entries
AnswerToolCall(c, toolCall, out) ==
  /\ ApplyOutcome(out)
  /\ misfiled' = misfiled \cup NewEntriesOfOthers(c, out)
  /\ IF abortsTurn(out.result.kind)
       \* catch (error) of the turn: the error event, break
       THEN /\ events' = [events EXCEPT
                            ![c] = Append(@, errorEvent("throw", turn[c]))]
            /\ queryPc' = [queryPc EXCEPT ![c] = breakAfterError]
            /\ UNCHANGED <<toolResults, toolIdx, conversationHistory>>
       ELSE /\ events' =
                 [events EXCEPT
                    ![c] = Append(@, toolResultEvent(toolCall, out.result, turn[c]))]
            /\ toolResults' =
                 [toolResults EXCEPT
                    ![c] = Append(@, toolResultBlock(toolCall, out.result))]
            /\ IF toolIdx[c] < Len(result[c].toolCalls)
                 THEN /\ toolIdx' = [toolIdx EXCEPT ![c] = nextCall(@)]
                      /\ queryPc' = [queryPc EXCEPT ![c] = "tool_use"]
                      /\ UNCHANGED conversationHistory
                 ELSE /\ conversationHistory' =
                           [conversationHistory EXCEPT
                              ![c] = addToHistory(
                                       addToHistory(@, Message("assistant",
                                                               assistantContent(result[c]))),
                                       Message("user",
                                               [i \in 1..Len(toolResults'[c]) |->
                                                  toolResults'[c][i].tool_use_id]))]
                      /\ queryPc' = [queryPc EXCEPT ![c] = "loop"]
                      /\ UNCHANGED toolIdx

\* await executeTool for the call that was announced, then the rest of the pass
ExecTool(c) ==
  /\ queryPc[c] = "exec"
  /\ AnswerToolCall(c, result[c].toolCalls[toolIdx[c]],
                    executeTool(result[c].toolCalls[toolIdx[c]].input))
  /\ UNCHANGED <<platform, skVars, strVars, brVars, delVars, sbVars, currentSessionId, userActedSince, requests,
                 turn, continueLoop, result, calls, sent>>

\* After the loop: the notice when the turn bound is reached, then done
Finish(c) ==
  /\ \/ queryPc[c] = "break"
     \/ queryPc[c] = "loop" /\ ~loopContinues(continueLoop[c], turn[c])
  /\ events' = [events EXCEPT ![c] = @ \o finalEvents(turn[c])]
  /\ queryPc' = [queryPc EXCEPT ![c] = "done"]
  /\ UNCHANGED <<platform, skVars, strVars, brVars, delVars, sbVars, toolVars, requests, turn, continueLoop,
                 result, toolIdx, toolResults, calls, sent,
                 conversationHistory>>

\* The steps a run of query takes by itself
QueryStep(c) ==
  \/ StartQuery(c)
  \/ \E kind \in ResponseKinds, r \in StreamResults : Request(c, kind, r)
  \/ YieldToolUse(c)
  \/ ExecTool(c)
  \/ Finish(c)

QueryInit ==
  /\ requests = {}
  /\ queryPc = [c \in Chats |-> "idle"]
  /\ turn = [c \in Chats |-> 0]
  /\ continueLoop = [c \in Chats |-> TRUE]
  /\ result = [c \in Chats |-> NoResult]
  /\ toolIdx = [c \in Chats |-> 0]
  /\ toolResults = [c \in Chats |-> <<>>]
  /\ events = [c \in Chats |-> <<>>]
  /\ calls = [c \in Chats |-> 0]
  /\ sent = [c \in Chats |-> <<>>]
  /\ conversationHistory = [c \in Chats |-> <<>>]

\* A chat request arrives at POST /api/chat
ChatRequest(c) ==
  /\ requests = {}
  /\ \A c2 \in Chats : queryPc[c2] = "idle"
  /\ requests' = {c}
  /\ UNCHANGED <<platform, skVars, strVars, brVars, delVars, sbVars, toolVars, queryPc, turn, continueLoop,
                 result, toolIdx, toolResults, events, calls, sent,
                 conversationHistory>>

\* Chat requests as the server takes them: any chat that has no run yet
ChatArrives(c) ==
  /\ c \notin requests
  /\ queryPc[c] = "idle"
  /\ requests' = requests \cup {c}
  /\ UNCHANGED <<platform, skVars, strVars, brVars, delVars, sbVars, toolVars, queryPc, turn, continueLoop,
                 result, toolIdx, toolResults, events, calls, sent,
                 conversationHistory>>

\* The streams of the runs that overlap: text only, a read in a sensitive
\* directory, a deletion request followed by its confirmation
OverlapResults ==
  { StreamResult(1, FALSE, <<>>, "end_turn"),
    StreamResult(0, TRUE,
                 <<ToolCall("b", ToolInput("Read", DocsY, 0, FALSE, <<>>))>>,
                 "tool_use"),
    StreamResult(0, FALSE,
                 <<ToolCall("a", ToolInput("Delete", TmpX, 0, FALSE, <<>>)),
                   ToolCall("a", ToolInput("ConfirmDelete", <<>>, 1, FALSE, <<>>))>>,
                 "end_turn") }

\* Runs of different chats interleaved at their awaits and yields
OverlapNext ==
  \/ \E c \in Chats : ChatArrives(c)
  \/ \E c \in Chats : StartQuery(c)
  \/ \E c \in Chats, r \in OverlapResults : Request(c, "ok", r)
  \/ \E c \in Chats : YieldToolUse(c)
  \/ \E c \in Chats : ExecTool(c)
  \/ \E c \in Chats : Finish(c)

QueryNext ==
  \/ \E c \in Chats : ChatRequest(c)
  \/ \E c \in Chats : StartQuery(c)
  \/ \E c \in Chats, kind \in ResponseKinds, r \in StreamResults : Request(c, kind, r)
  \/ \E c \in Chats : YieldToolUse(c)
  \/ \E c \in Chats : ExecTool(c)
  \/ \E c \in Chats : Finish(c)
  \/ \E id \in 1..MaxToolPerm : ApiConfirmPermission(id)
  \/ \E id \in 1..MaxToolPerm : ApiDenyPermission(id)


\* ------------------------------------------------------------------------
\* executeConfirmDelete and executeCancelDelete, with the await on the
\* filesystem as a step of its own
\* ------------------------------------------------------------------------

\* The tool calls that can be in progress at the same time (calls of
\* different runs)
Callers == {"k1", "k2"}

deletePending(deletionId) ==
  [id \in DOMAIN pendingDeletions \ {deletionId} |-> pendingDeletions[id]]

\* fs.unlink, or fs.rm with the entry's recursive flag, succeeds
fsRemoves(pending) ==
  /\ pending.path \in fsys
  /\ ~(pending.isDirectory /\ ~pending.recursive)

\* A Delete tool call
RequestDeletion(p, recursive) ==
  ExecuteToolCall(ToolInput("Delete", p, 0, recursive, <<>>))

\* executeConfirmDelete up to its await: the entry is read and the
\* filesystem call is made
ConfirmDeleteBegin(k, deletionId) ==
  /\ deleteCall[k] = <<>>
  /\ deletionId \in DOMAIN pendingDeletions
  /\ attempts[deletionId] < MaxAttempts
  /\ deleteCall' =
       [deleteCall EXCEPT
          ![k] = <<[id |-> deletionId, pending |-> pendingDeletions[deletionId]]>>]
  /\ attempts' = [attempts EXCEPT ![deletionId] = @ + 1]
  /\ UNCHANGED <<platform, skVars, strVars, brVars, sbVars, toolVars, queryVars, successes>>

\* executeConfirmDelete after its await: the filesystem call has succeeded
\* (entry removed, success reported) or failed (error reported)
ConfirmDeleteEnd(k) ==
  /\ deleteCall[k] # <<>>
  /\ deleteCall' = [deleteCall EXCEPT ![k] = <<>>]
  /\ IF fsRemoves(deleteCall[k][1].pending)
       THEN /\ fsys' = fsys \ {deleteCall[k][1].pending.path}
            /\ pendingDeletions' = deletePending(deleteCall[k][1].id)
            /\ successes' = [successes EXCEPT ![deleteCall[k][1].id] = @ + 1]
       ELSE UNCHANGED <<fsys, pendingDeletions, successes>>
  /\ UNCHANGED <<platform, skVars, strVars, brVars, sbVars, queryVars, delCounter, toolPendingPermissions,
                 toolPermCounter, toolApprovedPaths, currentSessionId,
                 userActedSince, approvedViaTool, cancelled, deniedByUser, misfiled, attempts>>

\* executeCancelDelete, which has no await
CancelDeleteCall(deletionId) ==
  /\ deletionId \in DOMAIN pendingDeletions
  /\ pendingDeletions' = deletePending(deletionId)
  /\ cancelled' = cancelled \cup {deletionId}
  /\ successes' = [successes EXCEPT ![deletionId] = @ + 1]
  /\ UNCHANGED <<platform, skVars, strVars, brVars, sbVars, queryVars, fsys, delCounter,
                 toolPendingPermissions, toolPermCounter, toolApprovedPaths,
                 currentSessionId, userActedSince, approvedViaTool, deniedByUser, misfiled,
                 deleteCall, attempts>>

DeletionInit ==
  /\ deleteCall = [k \in Callers |-> <<>>]
  /\ successes = [id \in 1..MaxDel |-> 0]
  /\ attempts = [id \in 1..MaxDel |-> 0]

DeletionNext ==
  \/ \E p \in ToolPaths, recursive \in BOOLEAN : RequestDeletion(p, recursive)
  \/ \E k \in Callers, id \in 1..MaxDel : ConfirmDeleteBegin(k, id)
  \/ \E k \in Callers : ConfirmDeleteEnd(k)
  \/ \E id \in 1..MaxDel : CancelDeleteCall(id)

\* ------------------------------------------------------------------------
\* addToHistory over a long conversation
\* ------------------------------------------------------------------------

\* The chat whose history grows
LongChat == "c1"

IsPrompt(message) == message = Message("user", <<"prompt">>)

\* The number of prompts a history holds
RECURSIVE Prompts(_)
Prompts(history) ==
  IF history = <<>> THEN 0
  ELSE (IF IsPrompt(Head(history)) THEN 1 ELSE 0) + Prompts(Tail(history))

\* this.addToHistory(chatId, {role: 'user', content: prompt}) at the start of
\* a run
PushPrompt ==
  /\ Prompts(conversationHistory[LongChat]) < MaxPrompts
  /\ conversationHistory' =
       [conversationHistory EXCEPT
          ![LongChat] = addToHistory(@, Message("user", <<"prompt">>))]
  /\ UNCHANGED <<platform, skVars, strVars, brVars, delVars, sbVars, toolVars, requests, queryPc, turn,
                 continueLoop, result, toolIdx, toolResults, events, calls, sent>>

\* The two addToHistory calls that end a turn with one tool call; a turn
\* belongs to a run, and a run starts by pushing its prompt
PushToolTurn ==
  /\ conversationHistory[LongChat] # <<>>
  /\ conversationHistory' =
       [conversationHistory EXCEPT
          ![LongChat] = addToHistory(addToHistory(@, Message("assistant", <<"a">>)),
                                     Message("user", <<"a">>))]
  /\ UNCHANGED <<platform, skVars, strVars, brVars, delVars, sbVars, toolVars, requests, queryPc, turn,
                 continueLoop, result, toolIdx, toolResults, events, calls, sent>>

HistoryNext == PushPrompt \/ PushToolTurn

\* ------------------------------------------------------------------------
\* WebSocket bridge: wss.on('connection'), sendCommand, ws.on('message')
\* ------------------------------------------------------------------------

Sockets == 1..MaxConn

\* type of an incoming message; "malformed" makes JSON.parse throw
MessageTypes == {"register", "result", "error", "malformed"}

\* message.id of an incoming message: the ids the server can assign and one
\* it never assigns
MessageIds == 0..MaxRequests

otherVars == <<platform, skVars, strVars, sbVars, toolVars, queryVars, delVars>>

\* A promise under resolve / reject: only the first call settles it
settle(ps, call, outcome) ==
  [ps EXCEPT ![call] =
     [@ EXCEPT !.state = IF @ = "pending" THEN outcome ELSE @,
               !.settles = @ + 1]]

sameId(counter) == counter
\* ++requestIdCounter
preIncrement(counter) == counter + 1

leaveTimer(armed, call) == armed
\* clearTimeout(pending.timeout)
clearTimeout(armed, call) == armed \ {call}

keepRequest(requestMap, id) == requestMap
\* pendingRequests.delete(id) in the timeout callback
expireRequest(requestMap, id) ==
  [i \in DOMAIN requestMap \ {id} |-> requestMap[i]]

\* a connection handler that keeps the connection it already has
ConnectionKeepingFirst(ws) ==
  /\ readyState[ws] = "NONE"
  /\ \A w \in Sockets : w < ws => readyState[w] # "NONE"
  /\ readyState' = [readyState EXCEPT ![ws] = "OPEN"]
  /\ browserExtensionSocket' =
       IF browserExtensionSocket = 0 THEN ws ELSE browserExtensionSocket
  /\ UNCHANGED <<pendingRequests, requestIdCounter, promises, timers,
                 notConnected, ignored, otherVars>>

\* wss.on('connection', (ws, req) => ...)
Connection(ws) ==
  /\ readyState[ws] = "NONE"
  /\ \A w \in Sockets : w < ws => readyState[w] # "NONE"
  /\ readyState' = [readyState EXCEPT ![ws] = "OPEN"]
  /\ browserExtensionSocket' = ws
  /\ UNCHANGED <<pendingRequests, requestIdCounter, promises, timers,
                 notConnected, ignored, otherVars>>

\* The close handshake starts: the socket leaves OPEN before 'close' is emitted
Closing(ws) ==
  /\ readyState[ws] = "OPEN"
  /\ readyState' = [readyState EXCEPT ![ws] = "CLOSING"]
  /\ UNCHANGED <<browserExtensionSocket, pendingRequests, requestIdCounter,
                 promises, timers, notConnected, ignored,
                 otherVars>>

\* a close handler that rejects what is outstanding
OnCloseRejecting(ws) ==
  /\ readyState[ws] = "CLOSING"
  /\ readyState' = [readyState EXCEPT ![ws] = "CLOSED"]
  /\ browserExtensionSocket' =
       IF browserExtensionSocket = ws THEN 0 ELSE browserExtensionSocket
  /\ promises' = [call \in DOMAIN promises |->
                    IF promises[call].state = "pending"
                      THEN [promises[call] EXCEPT !.state = "rejected",
                                                  !.settles = @ + 1]
                      ELSE promises[call]]
  /\ pendingRequests' = <<>>
  /\ timers' = {}
  /\ UNCHANGED <<requestIdCounter, notConnected, ignored, otherVars>>

\* ws.on('close', ...)
OnClose(ws) ==
  /\ readyState[ws] = "CLOSING"
  /\ readyState' = [readyState EXCEPT ![ws] = "CLOSED"]
  /\ browserExtensionSocket' =
       IF browserExtensionSocket = ws THEN 0 ELSE browserExtensionSocket
  /\ UNCHANGED <<pendingRequests, requestIdCounter, promises, timers,
                 notConnected, ignored, otherVars>>

\* browserExtensionSocket && browserExtensionSocket.readyState === 1
isConnected ==
  /\ browserExtensionSocket # 0
  /\ readyState[browserExtensionSocket] = "OPEN"

\* sendCommand(action, params)
SendCommand ==
  IF ~isConnected
    THEN /\ notConnected' = TRUE
         /\ UNCHANGED <<browserExtensionSocket, readyState, pendingRequests,
                        requestIdCounter, promises, timers, ignored, otherVars>>
    ELSE /\ Len(promises) < MaxRequests
         /\ requestIdCounter' = preIncrement(requestIdCounter)
         /\ promises' = Append(promises,
                          [id |-> preIncrement(requestIdCounter),
                           ws |-> browserExtensionSocket,
                           state |-> "pending", settles |-> 0,
                           timeouts |-> 0])
         /\ timers' = timers \cup {Len(promises) + 1}
         /\ pendingRequests' =
              [i \in DOMAIN pendingRequests \cup {preIncrement(requestIdCounter)} |->
                 IF i = preIncrement(requestIdCounter)
                   THEN Len(promises) + 1
                   ELSE pendingRequests[i]]
         /\ UNCHANGED <<browserExtensionSocket, readyState, notConnected, ignored, otherVars>>

\* The setTimeout callback of a call
Timeout(call) ==
  /\ call \in timers
  /\ timers' = timers \ {call}
  /\ pendingRequests' = expireRequest(pendingRequests, promises[call].id)
  /\ promises' = [settle(promises, call, "timed_out")
                    EXCEPT ![call].timeouts = @ + 1]
  /\ UNCHANGED <<browserExtensionSocket, readyState, requestIdCounter,
                 notConnected, ignored, otherVars>>

\* ws.on('message', (data) => ...)
OnMessage(ws, type, id) ==
  /\ readyState[ws] = "OPEN"
  /\ CASE type \in {"result", "error"} /\ id \in DOMAIN pendingRequests ->
            /\ timers' = clearTimeout(timers, pendingRequests[id])
            /\ pendingRequests' =
                 [i \in DOMAIN pendingRequests \ {id} |-> pendingRequests[i]]
            /\ promises' = settle(promises, pendingRequests[id],
                                  IF type = "error" THEN "rejected"
                                                    ELSE "resolved")
            /\ UNCHANGED ignored
       [] type \in {"result", "error"} /\ id \notin DOMAIN pendingRequests ->
            /\ ignored' = IF id \in 1..requestIdCounter
                            THEN ignored \cup {id} ELSE ignored
            /\ UNCHANGED <<pendingRequests, promises, timers>>
       \* 'register' is answered to the extension over ws; a message that
       \* does not parse is logged
       [] OTHER -> UNCHANGED <<pendingRequests, promises, timers, ignored>>
  /\ UNCHANGED <<browserExtensionSocket, readyState, requestIdCounter,
                 notConnected, otherVars>>

\* undefined, which JSON.stringify leaves out of the frame
Undefined == 0

\* event.data: the text of a frame, with the object JSON.parse makes of it
frameText(message) == [kind |-> "string", parsed |-> message]

\* { id, action, params } as sendCommand builds it
commandEnvelope(id) == [kind |-> "object", id |-> id]

\* value?.id: the property of an object, undefined on a string
propertyId(value) == IF value.kind = "object" THEN value.id ELSE Undefined

\* ws.onmessage of the extension: the frame it sends back when handleCommand
\* returns, and the one it sends from the catch when something threw
extensionReply(data, throws) ==
  IF throws
    THEN [type |-> "error", id |-> propertyId(data)]
    ELSE [type |-> "result", id |-> propertyId(data.parsed)]

\* The extension answers the command of a call, and the server's message
\* handler receives the answer
ExtensionReplies(call, throws) ==
  /\ call \in DOMAIN promises
  /\ OnMessage(promises[call].ws,
               extensionReply(frameText(commandEnvelope(promises[call].id)), throws).type,
               extensionReply(frameText(commandEnvelope(promises[call].id)), throws).id)

BridgeInit ==
  /\ browserExtensionSocket = 0
  /\ readyState = [ws \in Sockets |-> "NONE"]
  /\ pendingRequests = <<>>
  /\ requestIdCounter = 0
  /\ promises = <<>>
  /\ timers = {}
  /\ notConnected = FALSE
  /\ ignored = {}

BridgeNext ==
  \/ \E ws \in Sockets : Connection(ws)
  \/ \E ws \in Sockets : Closing(ws)
  \/ \E ws \in Sockets : OnClose(ws)
  \/ SendCommand
  \/ \E call \in timers : Timeout(call)
  \/ \E ws \in Sockets, type \in MessageTypes, id \in MessageIds :
       OnMessage(ws, type, id)
  \/ \E call \in 1..MaxRequests, throws \in BOOLEAN : ExtensionReplies(call, throws)

\* ------------------------------------------------------------------------
\* AntigravityProvider.processStream (SSE decoder)
\* ------------------------------------------------------------------------

\* A line of the response; "skipped" is a line without the data prefix, the
\* [DONE] marker, or data that JSON.parse rejects
Line(type, id, name, text) == [type |-> type, id |-> id, name |-> name, text |-> text]

\* partial_json carries either a whole object or the opening part of one
StreamLines ==
  { Line("tool_use_start", "t1", "Read", ""),
    Line("tool_use_start", "t2", "Write", ""),
    Line("input_json_delta", "", "", "whole"),
    Line("input_json_delta", "", "", "part"),
    Line("text_delta", "", "", "x"),
    Line("thinking_delta", "", "", "h"),
    Line("content_block_stop", "", "", ""),
    Line("message_delta", "", "", "end_turn"),
    Line("skipped", "", "", "") }

\* Whether JSON.parse accepts the accumulated argument buffer
validJson(jsonBuffer) == jsonBuffer = <<"whole">>

parseToolInputStrict(jsonBuffer) ==
  IF jsonBuffer = <<>> THEN "{}"
  ELSE IF validJson(jsonBuffer) THEN "object"
  ELSE "throw"
\* try { JSON.parse(currentToolInput || '{}') } catch { {} }
parseToolInput(jsonBuffer) ==
  IF jsonBuffer = <<>> THEN "{}"
  ELSE IF validJson(jsonBuffer) THEN "object"
  ELSE "{}"

streamUnchanged ==
  UNCHANGED <<streamTextChunks, streamToolCalls, streamContent,
              streamThinking, streamStopReason, currentToolCall,
              currentToolInput>>

\* The body of the for loop for one line
ProcessLine(line) ==
  /\ ~streamDone
  /\ Len(consumed) < MaxLines
  /\ consumed' = Append(consumed, line)
  /\ CASE line.type = "tool_use_start" ->
            /\ currentToolCall' = <<[id |-> line.id, name |-> line.name,
                                     input |-> "{}"]>>
            /\ currentToolInput' = <<>>
            /\ UNCHANGED <<streamTextChunks, streamToolCalls, streamContent,
                           streamThinking, streamStopReason>>
       [] line.type = "text_delta" ->
            /\ streamTextChunks' = Append(streamTextChunks, line.text)
            /\ streamContent' = Append(streamContent, [type |-> "text"])
            /\ UNCHANGED <<streamToolCalls, streamThinking, streamStopReason,
                           currentToolCall, currentToolInput>>
       [] line.type = "thinking_delta" ->
            /\ streamThinking' = Append(streamThinking, line.text)
            /\ UNCHANGED <<streamTextChunks, streamToolCalls, streamContent,
                           streamStopReason, currentToolCall, currentToolInput>>
       [] line.type = "input_json_delta" ->
            /\ currentToolInput' = Append(currentToolInput, line.text)
            /\ UNCHANGED <<streamTextChunks, streamToolCalls, streamContent,
                           streamThinking, streamStopReason, currentToolCall>>
       [] line.type = "content_block_stop" /\ currentToolCall # <<>> ->
            \* an exception here would leave the switch through the outer
            \* catch, which skips the line
            IF parseToolInput(currentToolInput) = "throw"
              THEN streamUnchanged
              ELSE /\ streamToolCalls' =
                        Append(streamToolCalls,
                               [currentToolCall[1] EXCEPT
                                  !.input = parseToolInput(currentToolInput)])
                   /\ streamContent' =
                        Append(streamContent,
                               [type |-> "tool_use", id |-> currentToolCall[1].id,
                                name |-> currentToolCall[1].name,
                                input |-> parseToolInput(currentToolInput)])
                   /\ currentToolCall' = <<>>
                   /\ currentToolInput' = <<>>
                   /\ UNCHANGED <<streamTextChunks, streamThinking,
                                  streamStopReason>>
       [] line.type = "message_delta" ->
            /\ streamStopReason' = line.text
            /\ UNCHANGED <<streamTextChunks, streamToolCalls, streamContent,
                           streamThinking, currentToolCall, currentToolInput>>
       [] OTHER -> streamUnchanged
  /\ UNCHANGED <<streamDone, platform, skVars, sbVars, toolVars, queryVars, delVars,
                 brVars>>

\* reader.read() reports done: the loop ends and the result is returned
StreamEnds ==
  /\ ~streamDone
  /\ streamDone' = TRUE
  /\ UNCHANGED consumed
  /\ streamUnchanged
  /\ UNCHANGED <<platform, skVars, sbVars, toolVars, queryVars, delVars, brVars>>

StreamInit ==
  /\ consumed = <<>>
  /\ streamDone = FALSE
  /\ streamTextChunks = <<>>
  /\ streamToolCalls = <<>>
  /\ streamContent = <<>>
  /\ streamThinking = <<>>
  /\ streamStopReason = "null"
  /\ currentToolCall = <<>>
  /\ currentToolInput = <<>>

StreamNext ==
  \/ \E line \in StreamLines : ProcessLine(line)
  \/ StreamEnds

\* ------------------------------------------------------------------------
\* Specifications
\* ------------------------------------------------------------------------
\* ------------------------------------------------------------------------
\* SkillsManager.execute and SkillsManager.cancel (part_003)
\* ------------------------------------------------------------------------

\* A step of a skill: its id, its type, and the ids onSuccess and onFailure
\* name, '' for none
SkillStep(id, type, onSuccess, onFailure) ==
  [id |-> id, type |-> type, onSuccess |-> onSuccess, onFailure |-> onFailure]

StepTypes == {"tool", "prompt"}
StepLinks == {"", "a", "b"}

\* skill.steps of the enabled skills: one step a, or the steps a and b
Skills ==
  {<<SkillStep("a", t, s, f)>> : t \in StepTypes, s \in StepLinks, f \in StepLinks}
  \cup {<<SkillStep("a", l[1], l[2], l[3]), SkillStep("b", l[4], l[5], l[6])>> :
          l \in StepTypes \X StepLinks \X StepLinks \X StepTypes \X StepLinks \X StepLinks}

\* skill.steps.findIndex((s) => s.id === id), counted from 1, 0 for -1
findIndex(steps, id) ==
  IF \E i \in DOMAIN steps : steps[i].id = id
    THEN CHOOSE i \in DOMAIN steps :
           /\ steps[i].id = id
           /\ \A j \in DOMAIN steps : steps[j].id = id => i <= j
    ELSE 0

\* executeStep: a prompt step returns, the tool executor returns or throws
stepOutcomes(type) == IF type = "prompt" THEN {TRUE} ELSE BOOLEAN

\* The index the loop goes on with after a step, 0 for throw error
nextStepIndex(steps, index, ok) ==
  LET link == IF ok THEN steps[index].onSuccess ELSE steps[index].onFailure IN
  IF link # "" /\ findIndex(steps, link) # 0
    THEN findIndex(steps, link)
    ELSE IF ok THEN index + 1 ELSE 0

\* execute(skillId) up to its first await: the execution record, then the
\* first pass of the while loop up to await this.executeStep
Execute(sk) ==
  /\ skPc = "idle"
  /\ skill' = sk
  /\ execStatus' = "running"
  /\ currentStepIndex' = 1
  /\ stepStatus' = [i \in DOMAIN sk |-> IF i = 1 THEN "running" ELSE "pending"]
  /\ skPc' = "await"
  /\ UNCHANGED <<cancelReturned, platform, sbVars, toolVars, queryVars, delVars,
                 brVars, strVars>>

\* await this.executeStep settles: the step's status, the next index, and
\* either the next pass up to its await or the end of execute
StepSettles(ok) ==
  /\ skPc = "await"
  /\ ok \in stepOutcomes(skill[currentStepIndex].type)
  /\ IF nextStepIndex(skill, currentStepIndex, ok) = 0
       \* throw error, caught by the outer catch
       THEN /\ stepStatus' = [stepStatus EXCEPT ![currentStepIndex] = "failed"]
            /\ execStatus' = "failed"
            /\ skPc' = "returned"
            /\ UNCHANGED currentStepIndex
       ELSE /\ currentStepIndex' = nextStepIndex(skill, currentStepIndex, ok)
            /\ IF nextStepIndex(skill, currentStepIndex, ok) > Len(skill)
                 THEN /\ stepStatus' =
                           [stepStatus EXCEPT
                              ![currentStepIndex] = IF ok THEN "completed" ELSE "failed"]
                      /\ execStatus' = "completed"
                      /\ skPc' = "returned"
                 ELSE /\ stepStatus' =
                           [[stepStatus EXCEPT
                               ![currentStepIndex] = IF ok THEN "completed" ELSE "failed"]
                            EXCEPT ![nextStepIndex(skill, currentStepIndex, ok)] = "running"]
                      /\ UNCHANGED <<execStatus, skPc>>
  /\ UNCHANGED <<skill, cancelReturned, platform, sbVars, toolVars, queryVars,
                 delVars, brVars, strVars>>

\* cancel(executionId), called from another task while execute awaits the
\* tool executor, or after execute has returned
Cancel ==
  /\ skPc # "idle"
  /\ skPc = "await" => skill[currentStepIndex].type = "tool"
  /\ IF execStatus = "running"
       THEN /\ execStatus' = "cancelled"
            /\ cancelReturned' = TRUE
       ELSE UNCHANGED <<execStatus, cancelReturned>>
  /\ UNCHANGED <<skill, skPc, stepStatus, currentStepIndex, platform, sbVars,
                 toolVars, queryVars, delVars, brVars, strVars>>

SkillsInit ==
  /\ skill = <<>>
  /\ skPc = "idle"
  /\ execStatus = "none"
  /\ stepStatus = <<>>
  /\ currentStepIndex = 0
  /\ cancelReturned = FALSE

SkillsNext ==
  \/ \E sk \in Skills : Execute(sk)
  \/ \E ok \in BOOLEAN : StepSettles(ok)
  \/ Cancel

Init ==
  /\ platform \in Platforms
  /\ SkillsInit
  /\ SandboxInit
  /\ ToolsInit
  /\ BridgeInit
  /\ StreamInit
  /\ QueryInit
  /\ DeletionInit

SpecSandbox == Init /\ [][SandboxNext]_vars

SpecTools == Init /\ [][ToolsNext]_vars

SpecQuery == Init /\ [][QueryNext]_vars

SpecDeletion == Init /\ [][DeletionNext]_vars

SpecHistory == Init /\ [][HistoryNext]_vars

SpecBridge == Init /\ [][BridgeNext]_vars

\* A timer that is armed fires unless it is cleared
SpecBridgeFair == SpecBridge /\ \A call \in 1..MaxRequests : WF_vars(Timeout(call))

SpecStream == Init /\ [][StreamNext]_vars

SpecSkills == Init /\ [][SkillsNext]_vars

\* Every await of execute settles
SpecSkillsFair == SpecSkills /\ WF_vars(\E ok \in BOOLEAN : StepSettles(ok))

SpecOverlap == Init /\ [][OverlapNext]_vars

\* Every await of a run settles and the consumer keeps iterating
SpecQueryFair == SpecQuery /\ \A c \in Chats : WF_vars(QueryStep(c))

\* ------------------------------------------------------------------------
\* Properties of the Sandbox
\* ------------------------------------------------------------------------

\* C8: approvals are session-scoped.  When approvePermission resolves a
\* permission that session s1 requested for path p, classifying p in s1
\* afterwards returns allowed, every other session that holds no approval still
\* gets requiresPermission for p, and no other session's classification of any
\* path changes.
C8_ApprovalIsSessionScoped ==
  [][\A id \in DOMAIN pendingPermissions : \A perm \in {pendingPermissions[id]} :
       approvePermission(id) =>
           /\ validateOutcome(perm.sessionId, perm.operation, perm.path)' = "allowed"
           /\ \A s2 \in Sessions \ {perm.sessionId} :
                /\ (approvedPaths[s2] = {} /\ deniedPaths[s2] = {}) =>
                     validateOutcome(s2, perm.operation, perm.path)' = "requiresPermission"
                /\ \A r \in Requests :
                     validateOutcome(s2, r[1], r[2])' = validateOutcome(s2, r[1], r[2])
    ]_vars

\* C9 as stated: for every path d in a session's denied set, no request for d
\* or for a path that textually starts with d is classified allowed.
C9_DeniedTextualPrefixNeverAllowed ==
  \A s \in Sessions : \A d \in deniedPaths[s] : \A r \in Requests :
    startsWith(r[2], d) => validateOutcome(s, r[1], r[2]) # "allowed"

\* C9 amended: for every path d in a session's denied set, no request whose
\* normalised path starts with d is classified allowed, whatever the session
\* has approved.
C9_DeniedNormalizedPrefixNeverAllowed ==
  \A s \in Sessions : \A d \in deniedPaths[s] : \A r \in Requests :
    startsWith(normalizePath(r[2]), d) => validateOutcome(s, r[1], r[2]) # "allowed"

\* A session holds a denial and an approval that both cover the same request
C9_Witness ==
  \E s \in Sessions : \E r \in Requests :
    /\ isDenied(s, r[2])
    /\ isApproved(s, r[2])
    /\ validateOutcome(s, r[1], r[2]) = "denied"

\* C10: no normalised path is in both the approved set and the denied set of
\* one session.
C10_ApprovedAndDeniedDisjoint ==
  \A s \in Sessions : approvedPaths[s] \cap deniedPaths[s] = {}


\* ------------------------------------------------------------------------
\* Properties of the tool module
\* ------------------------------------------------------------------------

\* C5: a path disappears from disk only in a step of executeConfirmDelete on
\* a pending entry that an earlier executeDelete created for that path.
C5_DeletionOnlyByConfirmDelete ==
  [][\A p \in ToolPaths :
       (p \in fsys /\ p \notin fsys') =>
         \E id \in DOMAIN pendingDeletions :
           /\ pendingDeletions[id].path = p
           /\ ExecuteToolCall(ToolInput("ConfirmDelete", <<>>, id, FALSE, <<>>))
    ]_vars

\* C6: executeConfirmDelete removes a path only when a request of the user
\* came in after the deletion was requested.
C6_ConfirmDeleteNeedsUserApproval ==
  [][\A id \in DOMAIN pendingDeletions :
       ( /\ ExecuteToolCall(ToolInput("ConfirmDelete", <<>>, id, FALSE, <<>>))
         /\ pendingDeletions[id].path \in fsys
         /\ pendingDeletions[id].path \notin fsys' )
       => id \in userActedSince
    ]_vars

\* C7: no path enters a session's approved set as the effect of a tool call.
C7_NoApprovalByToolCall ==
  approvedViaTool = {}


\* ------------------------------------------------------------------------
\* Properties of the turn loop
\* ------------------------------------------------------------------------
Finished(c) == queryPc[c] = "done"

\* The positions of a run's events that hold an event of the given type
EventsOfType(c, type) == {i \in 1..Len(events[c]) : events[c][i].type = type}

\* The ids of the tool_use, or tool_result, events one turn of a run emitted
TurnIds(c, type, t) ==
  LET idx == {i \in EventsOfType(c, type) : events[c][i].turn = t}
      RECURSIVE Ids(_)
      Ids(i) == IF i > Len(events[c]) THEN <<>>
                ELSE (IF i \in idx THEN <<events[c][i].id>> ELSE <<>>) \o Ids(i + 1)
  IN Ids(1)

\* C1: every tool_result event directly follows a tool_use event of the same
\* turn and carries its id; every tool_use event is followed by its
\* tool_result, except the one whose call is still running; while the tool
\* loop runs the tool_use events of the turn are the calls of the decoder's
\* list, in order; and a turn whose tool loop is over has as many tool_result
\* as tool_use events.
C1_OneToolResultPerToolUse ==
  \A c \in Chats :
    /\ \A i \in EventsOfType(c, "tool_result") :
         /\ i > 1
         /\ events[c][i - 1].type = "tool_use"
         /\ events[c][i - 1].turn = events[c][i].turn
         /\ events[c][i].id = events[c][i - 1].id
    /\ \A i \in EventsOfType(c, "tool_use") :
         IF i = Len(events[c])
           THEN queryPc[c] = "exec"
           ELSE /\ events[c][i + 1].type = "tool_result"
                /\ events[c][i + 1].id = events[c][i].id
    /\ queryPc[c] \in {"tool_use", "exec"} =>
         LET n == IF queryPc[c] = "exec" THEN toolIdx[c] ELSE toolIdx[c] - 1 IN
         TurnIds(c, "tool_use", turn[c])
           = [i \in 1..n |-> result[c].toolCalls[i].id]
    /\ \A t \in 1..turn[c] :
         (t < turn[c] \/ queryPc[c] \notin {"tool_use", "exec"}) =>
           TurnIds(c, "tool_result", t) = TurnIds(c, "tool_use", t)

\* A finished run with a turn of two calls under different ids, both answered
C1_Witness ==
  \E c \in Chats :
    /\ Finished(c)
    /\ \E t \in 1..turn[c] :
         /\ Len(TurnIds(c, "tool_use", t)) = 2
         /\ TurnIds(c, "tool_use", t)[1] # TurnIds(c, "tool_use", t)[2]
         /\ TurnIds(c, "tool_result", t) = TurnIds(c, "tool_use", t)

\* C2: a run makes at most maxTurns provider calls, and every run that was
\* requested ends.
C2_QueryTerminatesWithinMaxTurns ==
  /\ [](\A c \in Chats : calls[c] <= MaxTurns)
  /\ \A c \in Chats : (c \in requests \/ queryPc[c] # "idle") ~> Finished(c)

\* A finished run that made maxTurns provider calls, each answered with tool
\* calls, and whose every tool call returned an error
C2_Witness ==
  \E c \in Chats :
    /\ Finished(c)
    /\ calls[c] = MaxTurns
    /\ \A t \in 1..MaxTurns : Len(TurnIds(c, "tool_use", t)) > 0
    /\ \A i \in EventsOfType(c, "tool_result") : events[c][i].content = "error"

\* C3: a run emits at most one error event and nothing after it.
C3_ErrorIsTerminal ==
  \A c \in Chats :
    /\ Cardinality(EventsOfType(c, "error")) <= 1
    /\ \A i \in EventsOfType(c, "error") : i = Len(events[c])

\* C4: the last event of every finished run is done, done is emitted once,
\* and a run that has not finished has emitted no done.
C4_RunEndsWithDone ==
  \A c \in Chats :
    /\ Finished(c) =>
         /\ Len(events[c]) > 0
         /\ events[c][Len(events[c])].type = "done"
    /\ Cardinality(EventsOfType(c, "done")) <= 1
    /\ EventsOfType(c, "done") # {} => Finished(c)

\* A run without error that finished on the turn bound, its last event done
C4_Witness ==
  \E c \in Chats :
    /\ Finished(c)
    /\ turn[c] = MaxTurns
    /\ EventsOfType(c, "error") = {}
    /\ events[c][Len(events[c])].type = "done"


\* ------------------------------------------------------------------------
\* Properties of the Sandbox, continued
\* ------------------------------------------------------------------------

\* C11: approvePermission and denyPermission find a permission id at most
\* once.  Once a call has found the id, the id is gone from the pending store,
\* so every further approvePermission or denyPermission on it takes the
\* not-found return, which touches no store.
C11_ResolveAtMostOnce ==
  \A id \in 1..MaxPerm :
    resolutions[id] > 0 =>
      /\ resolutions[id] = 1
      /\ id \notin DOMAIN pendingPermissions

\* A permission that was resolved and then approved or denied again
C11_Witness ==
  \E id \in refusedAfter :
    /\ resolutions[id] = 1
    /\ \E s \in Sessions : approvedPaths[s] # {} \/ deniedPaths[s] # {}


\* ------------------------------------------------------------------------
\* Properties of overlapping runs
\* ------------------------------------------------------------------------

\* C12: a tool call of a run executes under that run's session id, and every
\* pending permission or pending deletion a run creates records that run's
\* session id.
C12_ToolCallsUseOwnSession ==
  /\ \A c \in Chats : queryPc[c] = "exec" => currentSessionId = c
  /\ misfiled = {}


\* ------------------------------------------------------------------------
\* Properties of the two-phase deletion
\* ------------------------------------------------------------------------

\* C13: for every deletion id at most one ConfirmDelete or CancelDelete call
\* reports success, and at most one filesystem deletion is started.
C13_DeletionConsumedAtMostOnce ==
  \A id \in 1..MaxDel : successes[id] <= 1 /\ attempts[id] <= 1


\* ------------------------------------------------------------------------
\* Properties of the tool handlers
\* ------------------------------------------------------------------------

\* C14: a tool call that names a sensitive path the current session has no
\* approval for returns the permission request, whatever the tool.
C14_SensitivePathShortCircuits ==
  \A input \in ToolInputs :
    ( /\ input.path # <<>>
      /\ isSensitivePath(input.path)
      /\ ~isPathApproved(currentSessionId, input.path) )
    => executeTool(input).result.kind = "requires_permission"


\* C15: executeTool returns a value for every tool name and input; what a
\* handler throws, a bridge timeout and a bridge error included, comes back as
\* the error result, and so does an unknown tool name.
C15_ExecuteToolNeverThrows ==
  \A input \in ToolInputs :
    /\ executeTool(input).result.kind # "throw"
    /\ toolHandler(input).result.kind = "throw" =>
         executeTool(input).result.kind = "error"
    /\ input.name = "Teleport" => executeTool(input).result.kind = "error"

\* The file in the sensitive directory is gone, so that Grep on it throws in
\* fs.stat, and the bridge times out on a browser call; both come back as errors
C15_Witness ==
  /\ DocsY \notin fsys
  /\ toolHandler(ToolInput("Grep", DocsY, 0, FALSE, <<>>)).result.kind = "throw"
  /\ executeTool(ToolInput("Grep", DocsY, 0, FALSE, <<>>)).result.kind = "error"
  /\ toolHandler(ToolInput("BrowserNavigate", <<>>, 0, FALSE, <<"timeout">>)).result.kind
       = "throw"
  /\ executeTool(ToolInput("BrowserNavigate", <<>>, 0, FALSE, <<"timeout">>)).result.kind
       = "error"


\* ------------------------------------------------------------------------
\* Properties of the history
\* ------------------------------------------------------------------------

\* The ids of the tool_use items of an assistant message
ToolUseIds(content) ==
  LET RECURSIVE Ids(_)
      Ids(i) == IF i > Len(content) THEN <<>>
                ELSE (IF content[i] = "text" THEN <<>> ELSE <<content[i]>>)
                     \o Ids(i + 1)
  IN Ids(1)

C17_TrimKeepsToolPairs ==
  \A c \in Chats :
    \A i \in 1..Len(conversationHistory[c]) :
      ( /\ conversationHistory[c][i].role = "user"
        /\ ~IsPrompt(conversationHistory[c][i]) )
      => /\ i > 1
         /\ conversationHistory[c][i - 1].role = "assistant"
         /\ ToolUseIds(conversationHistory[c][i - 1].content)
              = conversationHistory[c][i].content


\* ------------------------------------------------------------------------
\* Properties of the browser bridge
\* ------------------------------------------------------------------------

\* C18: the promise of a registered sendCommand call sees at most one resolve
\* or reject call, made by a response carrying its id or by its timeout; once
\* it is settled neither its pending entry nor its timer is left, so a later
\* response with that id changes nothing.
C18_SettledExactlyOnce ==
  \A call \in DOMAIN promises :
    /\ promises[call].settles <= 1
    /\ promises[call].state = "pending" <=> promises[call].settles = 0
    /\ promises[call].state \in {"pending", "resolved", "rejected", "timed_out"}
    /\ promises[call].state # "pending"
         => /\ promises[call].id \notin DOMAIN pendingRequests
            /\ call \notin timers

C18_Witness ==
  \E call \in DOMAIN promises :
    /\ promises[call].state \in {"resolved", "rejected"}
    /\ promises[call].settles = 1
    /\ promises[call].id \in ignored

\* C19: a registered call stays covered by its armed timer while it is
\* pending and so is settled eventually; the timeout of a call fires at most
\* once, rejects the promise as timed out and removes the id from
\* pendingRequests.
C19_TimeoutRejectsAndRemoves ==
  /\ \A call \in 1..MaxRequests :
       (call \in DOMAIN promises)
         ~> (call \in DOMAIN promises /\ promises[call].state # "pending")
  /\ [](\A call \in DOMAIN promises :
          /\ promises[call].timeouts <= 1
          /\ promises[call].state = "pending" => call \in timers
          /\ promises[call].state = "timed_out" <=> promises[call].timeouts = 1
          /\ promises[call].timeouts = 1
               => /\ promises[call].id \notin DOMAIN pendingRequests
                  /\ call \notin timers)

C19_Witness ==
  \E call \in DOMAIN promises :
    /\ promises[call].state = "timed_out"
    /\ promises[call].timeouts = 1
    /\ promises[call].id \in ignored
    /\ readyState[promises[call].ws] = "CLOSED"

\* C20: the ids of successive sendCommand calls strictly increase, on one
\* connection and across connections, and every pending call is the one
\* stored under its id in pendingRequests.
C20_RequestIdsIncrease ==
  /\ \A first \in DOMAIN promises, second \in DOMAIN promises :
       first < second => promises[first].id < promises[second].id
  /\ \A call \in DOMAIN promises :
       /\ promises[call].id <= requestIdCounter
       /\ promises[call].state = "pending"
            => /\ promises[call].id \in DOMAIN pendingRequests
               /\ pendingRequests[promises[call].id] = call
  /\ \A id \in DOMAIN pendingRequests : promises[pendingRequests[id]].id = id

C20_Witness ==
  /\ Len(promises) = 2
  /\ promises[1].ws # promises[2].ws
  /\ DOMAIN pendingRequests = {promises[1].id, promises[2].id}
  /\ promises[1].id < promises[2].id


\* ------------------------------------------------------------------------
\* Properties of tool handlers and of the turn loop, continued
\* ------------------------------------------------------------------------

\* C21: a CancelDelete call that succeeds removes the entry and leaves the
\* filesystem as it was; from then on the id is not pending and a
\* ConfirmDelete call with it returns an error and changes neither the
\* filesystem nor the store.
C21_CancelConsumesWithoutDeleting ==
  /\ [](\A id \in cancelled :
          /\ id \notin DOMAIN pendingDeletions
          /\ executeTool(ToolInput("ConfirmDelete", <<>>, id, FALSE, <<>>)).result.kind
               = "error"
          /\ executeTool(ToolInput("ConfirmDelete", <<>>, id, FALSE, <<>>)).fsys
               = fsys
          /\ executeTool(ToolInput("ConfirmDelete", <<>>, id, FALSE, <<>>)).pendingDeletions
               = pendingDeletions)
  /\ [][cancelled' # cancelled => fsys' = fsys]_vars

C21_Witness ==
  \E id \in cancelled :
    /\ fsys = ToolPaths
    /\ executeTool(ToolInput("ConfirmDelete", <<>>, id, FALSE, <<>>)).result.kind
         = "error"


\* C22: a Delete call on a path that does not exist returns an error and
\* leaves the pending deletions and the id counter as they were.
C22_DeleteOfMissingPathCreatesNothing ==
  \A input \in ToolInputs :
    (input.name = "Delete" /\ input.path \notin fsys)
    => /\ executeTool(input).result.kind = "error"
       /\ executeTool(input).pendingDeletions = pendingDeletions
       /\ executeTool(input).delCounter = delCounter
       /\ executeTool(input).fsys = fsys

C22_Witness ==
  \E input \in ToolInputs :
    /\ input.name = "Delete"
    /\ input.path \notin fsys
    /\ executeTool(input).result.kind = "error"
    /\ delCounter < MaxDel
    /\ fsys # ToolPaths


\* The tool-use blocks that a content_block_stop line has closed in a
\* sequence of lines, each with the argument text received for it
RECURSIVE ClosedBlocks(_, _, _)
ClosedBlocks(ls, open, jsonBuffer) ==
  IF ls = <<>> THEN <<>>
  ELSE IF Head(ls).type = "tool_use_start"
    THEN ClosedBlocks(Tail(ls), <<Head(ls)>>, <<>>)
  ELSE IF Head(ls).type = "input_json_delta"
    THEN ClosedBlocks(Tail(ls), open, Append(jsonBuffer, Head(ls).text))
  ELSE IF Head(ls).type = "content_block_stop" /\ open # <<>>
    THEN <<[id |-> open[1].id, name |-> open[1].name, buffer |-> jsonBuffer]>>
         \o ClosedBlocks(Tail(ls), <<>>, <<>>)
  ELSE ClosedBlocks(Tail(ls), open, jsonBuffer)

LinesOfType(ls, type) == SelectSeq(ls, LAMBDA l : l.type = type)

\* C23: every tool-use block closed so far is in toolCalls, in order, with its
\* id and name, and with input {} when its argument text is not valid JSON;
\* the text, thinking and stop reason of the other lines are decoded whatever
\* the argument text was.
C23_InvalidToolJsonGivesEmptyInput ==
  /\ Len(streamToolCalls) = Len(ClosedBlocks(consumed, <<>>, <<>>))
  /\ \A i \in 1..Len(streamToolCalls) :
       /\ streamToolCalls[i].id = ClosedBlocks(consumed, <<>>, <<>>)[i].id
       /\ streamToolCalls[i].name = ClosedBlocks(consumed, <<>>, <<>>)[i].name
       /\ ~validJson(ClosedBlocks(consumed, <<>>, <<>>)[i].buffer)
            => streamToolCalls[i].input = "{}"
       /\ validJson(ClosedBlocks(consumed, <<>>, <<>>)[i].buffer)
            => streamToolCalls[i].input = "object"
  /\ Len(streamTextChunks) = Len(LinesOfType(consumed, "text_delta"))
  /\ Len(streamThinking) = Len(LinesOfType(consumed, "thinking_delta"))
  /\ streamStopReason =
       IF LinesOfType(consumed, "message_delta") = <<>> THEN "null"
       ELSE "end_turn"

C23_Witness ==
  /\ streamDone
  /\ Len(consumed) = 4
  /\ consumed[2].text = "part"
  /\ consumed[3].type = "content_block_stop"
  /\ consumed[4].type = "text_delta"
  /\ Len(streamToolCalls) = 1
  /\ streamToolCalls[1].id = "t1"
  /\ streamToolCalls[1].input = "{}"
  /\ Len(streamTextChunks) = 1


\* C24: once a run has emitted an error event it makes no further provider
\* call and emits no further tool_use or tool_result event; the provider call
\* of the error's turn is its last, and that turn ran no tool.
C24_ErrorStopsCallsAndTools ==
  \A c \in Chats :
    \A i \in EventsOfType(c, "error") :
      /\ queryPc[c] \in {"break", "done"}
      /\ calls[c] = events[c][i].turn
      /\ \A j \in 1..Len(events[c]) :
           j > i => events[c][j].type \in {"text", "done"}

C24_Witness ==
  \E c \in Chats :
    /\ Finished(c)
    /\ calls[c] = 2
    /\ Len(TurnIds(c, "tool_use", 1)) = 2
    /\ \E i \in EventsOfType(c, "error") :
         /\ events[c][i].content = "API error"
         /\ events[c][i].turn = 2


\* The first n elements of a sequence
Prefix(seq, n) == SubSeq(seq, 1, n)

\* C25: while the handler of call i of a turn runs, the turn has emitted i
\* tool_use events and the i - 1 tool_result events of the calls before it;
\* between two calls both counts are equal; the tool_use events follow the
\* order of the decoder's list and the tool_result events the order of the
\* tool_use events.
C25_ToolCallsRunInOrder ==
  \A c \in Chats :
    /\ queryPc[c] = "exec" =>
         /\ Len(TurnIds(c, "tool_use", turn[c])) = toolIdx[c]
         /\ Len(TurnIds(c, "tool_result", turn[c])) = toolIdx[c] - 1
         /\ events[c][Len(events[c])].type = "tool_use"
         /\ events[c][Len(events[c])].id = result[c].toolCalls[toolIdx[c]].id
    /\ queryPc[c] = "tool_use" =>
         /\ Len(TurnIds(c, "tool_use", turn[c])) = toolIdx[c] - 1
         /\ Len(TurnIds(c, "tool_result", turn[c])) = toolIdx[c] - 1
    /\ queryPc[c] \in {"tool_use", "exec"} =>
         \A i \in 1..Len(TurnIds(c, "tool_use", turn[c])) :
           TurnIds(c, "tool_use", turn[c])[i] = result[c].toolCalls[i].id
    /\ \A t \in 1..turn[c] :
         /\ Len(TurnIds(c, "tool_result", t)) <= Len(TurnIds(c, "tool_use", t))
         /\ TurnIds(c, "tool_result", t)
              = Prefix(TurnIds(c, "tool_use", t), Len(TurnIds(c, "tool_result", t)))

C25_Witness ==
  \E c \in Chats :
    /\ queryPc[c] = "exec"
    /\ toolIdx[c] = 2
    /\ TurnIds(c, "tool_use", turn[c]) = <<"a", "b">>
    /\ TurnIds(c, "tool_result", turn[c]) = <<"a">>

\* C26: an error event never belongs to a turn that announced a tool call;
\* a tool_result that reports an error is followed by the next call of the
\* turn or by the next turn, and a turn whose calls are all answered leaves
\* the loop running whatever the results were.
C26_ToolFailureDoesNotAbort ==
  \A c \in Chats :
    /\ \A i \in EventsOfType(c, "error") :
         TurnIds(c, "tool_use", events[c][i].turn) = <<>>
    /\ \A i \in EventsOfType(c, "tool_result") :
         events[c][i].content = "error" =>
           IF i = Len(events[c])
             THEN /\ queryPc[c] \in {"tool_use", "loop"}
                  /\ turn[c] = events[c][i].turn => continueLoop[c]
             ELSE \/ events[c][i + 1].type = "tool_use"
                  \/ events[c][i + 1].turn # events[c][i].turn
    /\ (queryPc[c] = "loop" /\ turn[c] >= 1 /\ result[c].toolCalls # <<>>) =>
         /\ continueLoop[c]
         /\ Len(TurnIds(c, "tool_result", turn[c])) = Len(result[c].toolCalls)

C26_Witness ==
  \E c \in Chats :
    /\ calls[c] >= 2
    /\ \E i \in EventsOfType(c, "tool_result") :
         /\ events[c][i].content = "error"
         /\ events[c][i].turn = 1
         /\ events[c][i].name = "Teleport"
         /\ events[c][i + 1].type = "tool_use"
         /\ events[c][i + 2].type = "tool_result"
    /\ \E j \in 1..Len(events[c]) :
         events[c][j].turn = 2 /\ events[c][j].type # "error"


\* C27: a run makes one provider call per turn; a turn is followed by another
\* call only if it had a tool call; after a turn the loop flag is set exactly
\* when the turn had tool calls, and a run without error ends only on a turn
\* without tool calls or on the turn bound; a turn without tool calls leaves
\* in the history what the request carried plus the assistant content, if
\* there is any.
C27_TurnTransition ==
  \A c \in Chats :
    /\ calls[c] = turn[c]
    /\ \A t \in 1..(turn[c] - 1) : TurnIds(c, "tool_use", t) # <<>>
    /\ (queryPc[c] = "loop" /\ turn[c] >= 1) =>
         /\ continueLoop[c] <=> result[c].toolCalls # <<>>
         /\ ~continueLoop[c] =>
              conversationHistory[c] =
                IF assistantContent(result[c]) # <<>>
                  THEN Append(sent[c], Message("assistant", assistantContent(result[c])))
                  ELSE sent[c]
    /\ (Finished(c) /\ EventsOfType(c, "error") = {}) =>
         \/ ~continueLoop[c] /\ result[c].toolCalls = <<>>
         \/ continueLoop[c] /\ turn[c] = MaxTurns /\ result[c].toolCalls # <<>>

C27_Witness ==
  \E c \in Chats :
    /\ Finished(c)
    /\ turn[c] = 2
    /\ EventsOfType(c, "error") = {}
    /\ TurnIds(c, "tool_use", 1) # <<>>
    /\ result[c].toolCalls = <<>>
    /\ Len(conversationHistory[c]) = 4
    /\ conversationHistory[c][4] = Message("assistant", <<"text">>)


\* The max-turns notice is among the events of a run
NoticeEmitted(c) ==
  \E i \in EventsOfType(c, "text") : events[c][i].content = "[Reached maximum turns]"

\* C28: a finished run has emitted the max-turns notice exactly when it made
\* maxTurns turns, its last turn returned tool calls, and it emitted no error.
C28_NoticeOnlyWhenStoppedByTurnBound ==
  \A c \in Chats :
    Finished(c) =>
      ( NoticeEmitted(c) <=>
          /\ turn[c] = MaxTurns
          /\ result[c].toolCalls # <<>>
          /\ EventsOfType(c, "error") = {} )

\* C29: a run performs at most as many turns as its caller passed in
\* params.maxTurns.
C29_CallerTurnLimitHonoured ==
  \A c \in Chats : turn[c] <= paramsMaxTurns


\* ------------------------------------------------------------------------
\* Properties of the Sandbox, continued
\* ------------------------------------------------------------------------

\* C30: a path that contains an always-blocked pattern is classified blocked
\* for every session and operation, whatever the session has approved, and no
\* pending permission is ever held for such a path.
C30_BlockedPathAlwaysDenied ==
  /\ \A s \in Sessions, r \in Requests :
       <<platform, r[2], TRUE>> \in BlockedPaths
         => validateOutcome(s, r[1], r[2]) = "blocked"
  /\ \A id \in DOMAIN pendingPermissions :
       <<platform, pendingPermissions[id].path, TRUE>> \notin BlockedPaths

C30_Witness ==
  \E s \in Sessions :
    /\ <<platform, EtcPasswd, TRUE>> \in BlockedPaths
    /\ normalizePath(Etc) \in approvedPaths[s]
    /\ isApproved(s, EtcPasswd)
    /\ validateOutcome(s, "read", EtcPasswd) = "blocked"


\* C31: for every session and operation, a path that is not blocked, not
\* denied and not approved for the session, and not sensitive, is classified
\* allowed.
C31_UnmatchedPathIsAllowed ==
  \A s \in Sessions, r \in Requests :
    ( /\ ~isBlocked(r[2])
      /\ ~isDenied(s, r[2])
      /\ ~isApproved(s, r[2])
      /\ ~isSensitive(r[2]) )
    => validateOutcome(s, r[1], r[2]) = "allowed"


\* C32: once the user has denied a permission that session s requested for
\* path p, a later Read of p in session s is refused outright: it does not ask
\* again and creates no new pending permission.
C32_DenyIsRemembered ==
  \A d \in deniedByUser, input \in ToolInputs :
    ( /\ currentSessionId = d[1]
      /\ input.name = "Read"
      /\ input.path = d[2] )
    => /\ executeTool(input).result.kind # "requires_permission"
       /\ executeTool(input).toolPermCounter = toolPermCounter


\* C33: the step of a run that asks for a permission also emits the call's
\* tool_result, which reports requires_permission, and leaves the permission
\* pending; no step of a run removes a pending permission; and a run that
\* has reported requires_permission reaches its end whether or not anyone
\* ever approves or denies.
C33_RunNeverWaitsForPermission ==
  /\ [][toolPermCounter' # toolPermCounter =>
          /\ toolPermCounter' \in DOMAIN toolPendingPermissions'
          /\ \E c \in Chats :
               /\ queryPc[c] = "exec"
               /\ queryPc'[c] \in {"tool_use", "loop"}
               /\ Len(events'[c]) = Len(events[c]) + 1
               /\ events'[c][Len(events'[c])].type = "tool_result"
               /\ events'[c][Len(events'[c])].content = "requires_permission"]_vars
  /\ [][(\E id \in DOMAIN toolPendingPermissions :
            id \notin DOMAIN toolPendingPermissions')
          => queryPc' = queryPc /\ events' = events]_vars
  /\ \A c \in Chats :
       (\E i \in EventsOfType(c, "tool_result") :
           events[c][i].content = "requires_permission") ~> Finished(c)

\* A finished run whose Read asked for a permission that is still pending
C33_Witness ==
  \E c \in Chats :
    /\ Finished(c)
    /\ \E i \in EventsOfType(c, "tool_result") :
         /\ events[c][i].content = "requires_permission"
         /\ events[c][i].name = "Read"
    /\ toolPermCounter = 1
    /\ 1 \in DOMAIN toolPendingPermissions
    /\ toolPendingPermissions[1].sessionId = c


\* C34: a ConfirmDelete whose deletion fails, because the path is gone or
\* because a directory was requested without recursive, returns an error and
\* changes neither the pending entries nor the disk, so the same id can be
\* confirmed again; an entry leaves the pending store only in a step that
\* deletes its path or cancels it.
C34_FailedConfirmKeepsEntry ==
  /\ [](\A input \in ToolInputs :
          (input.name = "ConfirmDelete" /\ input.id \in DOMAIN pendingDeletions) =>
            IF \/ pendingDeletions[input.id].path \notin fsys
               \/ /\ pendingDeletions[input.id].isDirectory
                  /\ ~pendingDeletions[input.id].recursive
              THEN /\ executeTool(input).result.kind = "error"
                   /\ executeTool(input).pendingDeletions = pendingDeletions
                   /\ executeTool(input).fsys = fsys
              ELSE /\ executeTool(input).result.kind = "success"
                   /\ input.id \notin DOMAIN executeTool(input).pendingDeletions
                   /\ pendingDeletions[input.id].path \notin executeTool(input).fsys)
  /\ [][\A id \in DOMAIN pendingDeletions :
          id \notin DOMAIN pendingDeletions' =>
            \/ id \in cancelled'
            \/ /\ pendingDeletions[id].path \in fsys
               /\ pendingDeletions[id].path \notin fsys']_vars

\* A file whose deletion is pending was removed by a shell command, so the
\* ConfirmDelete of its id fails and leaves the entry where it is
C34_Witness ==
  \E input \in ToolInputs :
    /\ input.name = "ConfirmDelete"
    /\ input.id \in DOMAIN pendingDeletions
    /\ ~pendingDeletions[input.id].isDirectory
    /\ pendingDeletions[input.id].path \notin fsys
    /\ executeTool(input).result.kind = "error"
    /\ input.id \in DOMAIN executeTool(input).pendingDeletions


\* C35: a step that changes the state of a socket (accept, start of close,
\* close) settles no promise and changes neither the pending requests nor
\* the timers; a pending promise is settled only by its own timeout or by a
\* response that carries its id; and while the bridge is not connected no
\* step hands out an id or stores a pending request, a sendCommand ending in
\* the not-connected error.
C35_CloseSettlesNothing ==
  /\ [][readyState' # readyState =>
          /\ promises' = promises
          /\ pendingRequests' = pendingRequests
          /\ timers' = timers]_vars
  /\ [][\A call \in DOMAIN promises :
          (promises[call].state = "pending" /\ promises'[call].state # "pending") =>
            \/ /\ promises'[call].state = "timed_out"
               /\ call \in timers
               /\ call \notin timers'
            \/ /\ promises'[call].state \in {"resolved", "rejected"}
               /\ promises[call].id \in DOMAIN pendingRequests
               /\ pendingRequests[promises[call].id] = call
               /\ promises[call].id \notin DOMAIN pendingRequests']_vars
  /\ [][~isConnected =>
          /\ Len(promises') = Len(promises)
          /\ requestIdCounter' = requestIdCounter
          /\ DOMAIN pendingRequests' \subseteq DOMAIN pendingRequests]_vars
  /\ [][notConnected' # notConnected =>
          /\ ~isConnected
          /\ notConnected'
          /\ promises' = promises
          /\ pendingRequests' = pendingRequests]_vars

\* The only connection has closed while a request was outstanding: the
\* request is still pending with its timer armed, and a sendCommand issued
\* afterwards threw
C35_Witness ==
  /\ browserExtensionSocket = 0
  /\ \E ws \in Sockets : readyState[ws] = "CLOSED"
  /\ \A ws \in Sockets : readyState[ws] # "OPEN"
  /\ notConnected
  /\ \E call \in DOMAIN promises :
       /\ promises[call].state = "pending"
       /\ call \in timers
       /\ promises[call].id \in DOMAIN pendingRequests
       /\ readyState[promises[call].ws] = "CLOSED"


\* C36: the bridge holds one socket at most, and it is the one accepted
\* last: accepting a connection makes it the current socket whatever the
\* current socket was; every sendCommand that stores a request sends on the
\* current socket; and the close of a socket that is not the current one
\* leaves the current socket in place.
C36_SecondConnectionReplacesFirst ==
  /\ [][\A ws \in Sockets :
          (readyState[ws] = "NONE" /\ readyState'[ws] = "OPEN")
            => browserExtensionSocket' = ws]_vars
  /\ [][Len(promises') > Len(promises) =>
          /\ isConnected
          /\ promises'[Len(promises')].ws = browserExtensionSocket]_vars
  /\ [][\A ws \in Sockets :
          (/\ readyState[ws] = "CLOSING"
           /\ readyState'[ws] = "CLOSED"
           /\ browserExtensionSocket # ws)
            => browserExtensionSocket' = browserExtensionSocket]_vars

\* The first connection was replaced by a second and has closed since; the
\* bridge is still connected, and a command was sent on the second
C36_Witness ==
  /\ readyState[1] = "CLOSED"
  /\ readyState[2] = "OPEN"
  /\ browserExtensionSocket = 2
  /\ isConnected
  /\ \E call \in DOMAIN promises : promises[call].ws = 2


\* C37: the frame the extension sends back for the command of a call carries
\* the id of that command, when handleCommand returned as well as when it
\* threw.
C37_ReplyCarriesCommandId ==
  \A call \in DOMAIN promises, throws \in BOOLEAN :
    extensionReply(frameText(commandEnvelope(promises[call].id)), throws).id
      = promises[call].id


\* C38: whatever the current session is, CancelDelete removes any pending
\* entry and ConfirmDelete deletes the path of any pending entry that can be
\* deleted, the entry's session playing no part; getPendingDeletions lists
\* for a session exactly the entries recorded under it, and all entries when
\* no session is given.
C38_DeletionsNotSessionGuarded ==
  /\ \A input \in ToolInputs :
       (input.id \in DOMAIN pendingDeletions) =>
         /\ input.name = "CancelDelete" =>
              /\ executeTool(input).result.kind = "cancelled"
              /\ input.id \notin DOMAIN executeTool(input).pendingDeletions
         /\ ( /\ input.name = "ConfirmDelete"
              /\ pendingDeletions[input.id].path \in fsys
              /\ ~pendingDeletions[input.id].isDirectory ) =>
              /\ executeTool(input).result.kind = "success"
              /\ pendingDeletions[input.id].path \notin executeTool(input).fsys
  /\ \A s \in Chats \cup {"default"} :
       getPendingDeletions(s) =
         {id \in DOMAIN pendingDeletions : pendingDeletions[id].session = s}
  /\ getPendingDeletions("") = DOMAIN pendingDeletions

\* An entry recorded under another session than the current one: it is not
\* listed for the current session, and a ConfirmDelete in the current session
\* deletes its path
C38_Witness ==
  \E input \in ToolInputs :
    /\ input.name = "ConfirmDelete"
    /\ input.id \in DOMAIN pendingDeletions
    /\ pendingDeletions[input.id].session # currentSessionId
    /\ input.id \notin getPendingDeletions(currentSessionId)
    /\ input.id \in getPendingDeletions(pendingDeletions[input.id].session)
    /\ executeTool(input).result.kind = "success"
    /\ pendingDeletions[input.id].path \notin executeTool(input).fsys


\* C39: once cancel has returned true the execution's status stays cancelled,
\* and execute starts no further step.
C39_CancelIsFinal ==
  /\ [](cancelReturned => execStatus = "cancelled")
  /\ [][cancelReturned =>
          ~ /\ skPc' = "await"
            /\ <<currentStepIndex, stepStatus>>' # <<currentStepIndex, stepStatus>>]_vars

\* C40: an execution that was started returns, with status completed or
\* failed.
C40_ExecuteTerminates ==
  (skPc = "await") ~> (skPc = "returned" /\ execStatus \in {"completed", "failed"})

====
